---- MODULE Spec2Model ----
(***************************************************************************)
(* OasisExposuresManager (oasislmf/exposures/manager.py): the derivation   *)
(* of the item table from the canonical exposures and the keys lookup      *)
(* (load_exposure_master_data_frame), the GUL file generation              *)
(* (generate_gul_files, generate_oasis_files) and the FM-term table        *)
(* (load_fm_master_data_frame).                                            *)
(*                                                                         *)
(* Numbers are fixed-point: a column value x is held as x * Scale, so that *)
(* fractions of TIV (0.5) are integers of the model.                       *)
(***************************************************************************)
EXTENDS Integers, Sequences, FiniteSets, TLC

VARIABLES
    canexp_df,      \* canonical exposures table: sequence of rows (column -> value)
    keys_df,        \* keys-lookup table: sequence of rows
    cep,            \* canonical_exposures_profile: the set of its entries (values())
    cap,            \* canonical_account_profile: the set of its entries (values())
    include_fm,     \* argument of generate_oasis_files
    pc,             \* position of the call in progress
    err,            \* the exception that ended the call, "" when none
    i,              \* loop index of the loop in progress (0-based, as range(len(..)))
    item_id,        \* item counter of load_exposure_master_data_frame
    result,         \* the item table under construction (local of the loader)
    data_frame,     \* the table the loader returned to its caller, None before
    files,          \* files written so far: file key -> rows written
    ret,            \* value returned by the entry point, None before
    gid_order,      \* iteration order of grouped_fm_term_fields['coverage']
    fm_index,       \* [levels, grouped]: fm_levels and grouped_fm_term_fields
    fm_df,          \* the FM-term table
    limit_val,      \* loop locals of load_fm_master_data_frame, None while unbound
    ded_val,
    ded_type,
    models,         \* self._models: model key -> model object
    resources,      \* model object -> its resources, the files pipeline among them
    args,           \* arguments of the manager call in progress
    calls,          \* the operations performed so far, in order
    frame           \* locals of the manager call in progress

vars == << canexp_df, keys_df, cep, cap, include_fm, pc, err, i, item_id, result,
           data_frame, files, ret, gid_order, fm_index, fm_df, limit_val, ded_val,
           ded_type, models, resources, args, calls, frame >>

(***************************************************************************)
(* Bounds of the model.                                                    *)
(***************************************************************************)
MaxKeys == 2        \* rows of the keys-lookup table
MaxLoc == 2         \* rows of the canonical exposures table
Scale == 2          \* fixed-point denominator: 1.0 is held as Scale

\* Python's None / an unbound local, and a bound value.
None == << >>
Some(v) == << v >>

One == Scale
Half == Scale \div 2
Amount(x) == x * Scale

(***************************************************************************)
(* Strings: str.lower() and the order sorted() puts the element names in.  *)
(***************************************************************************)
Lower(s) ==
    CASE s = "ROW_ID" -> "row_id"
      [] s = "WSCV1VAL" -> "wscv1val"
      [] s = "WSCV1LIMIT" -> "wscv1limit"
      [] s = "WSCV1DED" -> "wscv1ded"
      [] s = "WSCV2VAL" -> "wscv2val"
      [] s = "WSCV2LIMIT" -> "wscv2limit"
      [] s = "WSCV2DED" -> "wscv2ded"
      [] s = "BLANLIMAMT" -> "blanlimamt"
      [] s = "BLANDEDAMT" -> "blandedamt"
      [] s = "TIV1" -> "tiv1"
      [] s = "LIM1" -> "lim1"
      [] s = "DED1" -> "ded1"
      [] s = "TIV2" -> "tiv2"
      [] s = "LIM2" -> "lim2"
      [] s = "DED2" -> "ded2"
      [] s = "Layer" -> "layer"
      [] s = "Coverage" -> "coverage"
      [] s = "Policy" -> "policy"
      [] s = "TIV" -> "tiv"
      [] s = "Limit" -> "limit"
      [] s = "Deductible" -> "deductible"
      [] s = "Share" -> "share"
      [] OTHER -> s

\* The element names in ascending str order.
NameOrder ==
    << "BLANDEDAMT", "BLANLIMAMT", "DED1", "DED2", "LIM1", "LIM2", "ROW_ID", "TIV1", "TIV2",
       "WSCV1DED", "WSCV1LIMIT", "WSCV1VAL", "WSCV2DED", "WSCV2LIMIT", "WSCV2VAL" >>

NameRank(n) == CHOOSE k \in 1..Len(NameOrder) : NameOrder[k] = n

\* sorted(S, key): the elements of S in ascending key order (keys distinct on S).
SortedBy(S, key(_)) ==
    LET RECURSIVE sort(_)
        sort(T) ==
            IF T = {} THEN << >>
            ELSE LET m == CHOOSE x \in T : \A y \in T : key(x) <= key(y)
                 IN << m >> \o sort(T \ {m})
    IN sort(S)

\* filter(pred, seq)
Filter(s, pred(_)) ==
    LET RECURSIVE keep(_)
        keep(t) ==
            IF t = << >> THEN << >>
            ELSE (IF pred(Head(t)) THEN << Head(t) >> ELSE << >>) \o keep(Tail(t))
    IN keep(s)

\* fold of a sequence, left to right
FoldSeq(op(_, _), base, s) ==
    LET RECURSIVE fold(_, _)
        fold(acc, t) == IF t = << >> THEN acc ELSE fold(op(acc, Head(t)), Tail(t))
    IN fold(base, s)

Range(f) == { f[x] : x \in DOMAIN f }

\* itertools.groupby(seq, key): the runs of consecutive elements of equal key
GroupBy(s, key(_)) ==
    LET add(runs, e) ==
            IF runs # << >> /\ runs[Len(runs)].key = key(e)
            THEN [ runs EXCEPT ![Len(runs)].items = Append(@, e) ]
            ELSE Append(runs, [ key |-> key(e), items |-> << e >> ])
    IN FoldSeq(add, << >>, s)

\* the orders a dict with the keys S can be iterated in
Orders(S) ==
    { o \in [ 1..Cardinality(S) -> S ] : \A a, b \in 1..Cardinality(S) : o[a] = o[b] => a = b }

(***************************************************************************)
(* load_exposure_master_data_frame                                         *)
(***************************************************************************)

\* tiv_fields (528-530): the profile entries with FieldName 'TIV', sorted.
\* Python 2 orders dicts of equal length by their smallest differing key, which
\* for these entries is CoverageTypeID, then ProfileElementName.
TivFieldKey(v) == v.CoverageTypeID * (Len(NameOrder) + 1) + NameRank(v.ProfileElementName)

TivFields(profile) ==
    SortedBy({v \in profile : "FieldName" \in DOMAIN v /\ v.FieldName = "TIV"}, TivFieldKey)

\* canexp_df[canexp_df['row_id'] == locid] (552): the matching rows, in table order.
CanexpRows(df, id) ==
    LET match(r) == r["row_id"] = id IN Filter(df, match)

\* fault variant: every TIV entry is taken, whatever its coverage type
TivFieldsOfAnyCoverage(tiv_fields, keys_item) == tiv_fields

\* tiv_field_matches (561)
TivFieldMatches(tiv_fields, keys_item) ==
    LET match(f) == f.CoverageTypeID = keys_item.coveragetype IN Filter(tiv_fields, match)

\* fault variant: a TIV of 0 counts as insured
TivNotNegative(tiv_value) == tiv_value >= 0

\* the test of line 565
TivInsured(tiv_value) == tiv_value > 0

\* fault variant: the counter also counts the row
NextItemIdSkipping(id) == id + 2

\* the counter increment of line 566
NextItemId(id) == id + 1

\* fault variant: items are grouped by location
NewItemGroupedByLocation(id, canexp_item, keys_item, tiv_value) ==
    [ item_id |-> id,
      canloc_id |-> canexp_item["row_id"],
      coverage_id |-> id,
      tiv |-> tiv_value,
      areaperil_id |-> keys_item.areaperilid,
      vulnerability_id |-> keys_item.vulnerabilityid,
      group_id |-> canexp_item["row_id"],
      summary_id |-> 1,
      summaryset_id |-> 1 ]

\* the row appended at lines 567-577
NewItem(id, canexp_item, keys_item, tiv_value) ==
    [ item_id |-> id,
      canloc_id |-> canexp_item["row_id"],
      coverage_id |-> id,
      tiv |-> tiv_value,
      areaperil_id |-> keys_item.areaperilid,
      vulnerability_id |-> keys_item.vulnerabilityid,
      group_id |-> id,
      summary_id |-> 1,
      summaryset_id |-> 1 ]

\* the inner loop (562-577) over the TIV entries of the row's coverage type;
\* acc is [item_id, result]
RECURSIVE AppendItems(_, _, _, _)
AppendItems(matches, canexp_item, keys_item, acc) ==
    IF matches = << >> THEN acc
    ELSE LET tiv_field == Head(matches)
             tiv_lookup == Lower(tiv_field.ProfileElementName)
             tiv_value == canexp_item[tiv_lookup]
             id == NextItemId(acc.item_id)
             next == IF TivInsured(tiv_value)
                     THEN [ item_id |-> id,
                            result |-> Append(acc.result,
                                              NewItem(id, canexp_item, keys_item, tiv_value)) ]
                     ELSE acc
         IN AppendItems(Tail(matches), canexp_item, keys_item, next)

\* fault variant: a keys row without canonical row is passed over
ExposureStepSkippingUnmatched(df, keys, profile, k, acc) ==
    LET keys_item == keys[k]
        canexp_item == CanexpRows(df, keys_item.locid)
    IN IF canexp_item = << >>
       THEN [ raised |-> "", item_id |-> acc.item_id, result |-> acc.result ]
       ELSE LET after == AppendItems(TivFieldMatches(TivFields(profile), keys_item),
                                     canexp_item[1], keys_item, acc)
            IN [ raised |-> "", item_id |-> after.item_id, result |-> after.result ]

\* one pass of the outer loop (549-577) on keys row k (1-based): the loader's
\* locals after it, or the exception it raises
ExposureStep(df, keys, profile, k, acc) ==
    LET keys_item == keys[k]
        canexp_item == CanexpRows(df, keys_item.locid)
    IN IF canexp_item = << >>
       THEN [ raised |-> "OasisException", item_id |-> acc.item_id, result |-> acc.result ]
       ELSE LET after == AppendItems(TivFieldMatches(TivFields(profile), keys_item),
                                     canexp_item[1], keys_item, acc)
            IN [ raised |-> "", item_id |-> after.item_id, result |-> after.result ]

\* the whole call (548-579): [raised, result]
RECURSIVE ExposureLoop(_, _, _, _, _)
ExposureLoop(df, keys, profile, k, acc) ==
    IF k > Len(keys) THEN [ raised |-> "", item_id |-> acc.item_id, result |-> acc.result ]
    ELSE LET s == ExposureStep(df, keys, profile, k, acc)
         IN IF s.raised # "" THEN s
            ELSE ExposureLoop(df, keys, profile, k + 1, s)

LoadExposureMasterDataFrame(df, keys, profile) ==
    ExposureLoop(df, keys, profile, 1, [ item_id |-> 0, result |-> << >> ])

(***************************************************************************)
(* load_fm_master_data_frame                                               *)
(***************************************************************************)
FmTermTypes == { "tiv", "deductible", "limit" }

\* the entries the index is built from (603)
FmTermEntries(exposures_profile, account_profile) ==
    { v \in exposures_profile \cup account_profile :
        "FMLevel" \in DOMAIN v /\ Lower(v.FMTermType) \in FmTermTypes }

\* fm_term_fields (598-608): the entries sorted by FMLevelOrder (entries of equal
\* order stay in the order values() gave them, taken here to be the name order),
\* grouped into runs of equal FMLevel; a later run of a level replaces an earlier
\* one, and so does a later entry of the same lower-cased name
FmTermFields(exposures_profile, account_profile) ==
    LET key(v) == v.FMLevelOrder * (Len(NameOrder) + 1) + NameRank(v.ProfileElementName)
        level(v) == v.FMLevel
        byName(d, gi) == (Lower(gi.ProfileElementName) :> gi) @@ d
        byLevel(d, run) == (Lower(run.key) :> FoldSeq(byName, << >>, run.items)) @@ d
    IN FoldSeq(byLevel, << >>,
               GroupBy(SortedBy(FmTermEntries(exposures_profile, account_profile), key), level))

\* fm_levels (610): the levels by the FMLevelOrder of one of their entries
FmLevels(fm_term_fields) ==
    LET order(l) == (CHOOSE gi \in Range(fm_term_fields[l]) : TRUE).FMLevelOrder
    IN SortedBy(DOMAIN fm_term_fields, order)

\* grouped_fm_term_fields (612-616): per level the entries sorted by name, grouped
\* into runs of equal FMTermGroupID; a later run of a group replaces an earlier one
GroupedFmTermFields(fm_term_fields) ==
    LET name(gi) == NameRank(gi.ProfileElementName)
        group(gi) == gi.FMTermGroupID
        byType(d, gi) == (Lower(gi.FMTermType) :> gi) @@ d
        byGroup(d, run) == (run.key :> FoldSeq(byType, << >>, run.items)) @@ d
    IN [ l \in DOMAIN fm_term_fields |->
           FoldSeq(byGroup, << >>, GroupBy(SortedBy(Range(fm_term_fields[l]), name), group)) ]

\* one row of fm_data (623-627)
FmPresetRow(fm_level, item) ==
    [ itemid |-> item.item_id, canlocid |-> item.canloc_id, levelid |-> None,
      layerid |-> None, aggid |-> None, policytcid |-> None, deductible |-> None,
      limit |-> None, share |-> None, deductibletype |-> None, calcrule |-> None,
      tiv |-> item.tiv, fm_level |-> fm_level ]

\* fault variant: the items as the outer loop
FmDataItemMajor(levels, items) ==
    LET rowsOf(k) == [ n \in 1..Len(levels) |-> FmPresetRow(levels[n], items[k]) ]
        add(rows, k) == rows \o rowsOf(k)
    IN FoldSeq(add, << >>, [ k \in 1..Len(items) |-> k ])

\* preset_data / fm_data (618-629): itertools.product(fm_levels, items)
FmData(levels, items) ==
    LET rowsOf(fm_level) == [ k \in 1..Len(items) |-> FmPresetRow(fm_level, items[k]) ]
        add(rows, fm_level) == rows \o rowsOf(fm_level)
    IN FoldSeq(add, << >>, levels)

\* fault variant: a value of exactly 1 is kept as an amount
TermValueKeepingOne(val, tiv) == IF val >= One THEN val ELSE (val * tiv) \div Scale

\* limit_val if limit_val > 1 else (limit_val * float(fm_item['tiv']))  (641, 645, 654, 658)
TermValue(val, tiv) == IF val > One THEN val ELSE (val * tiv) \div Scale

\* the deductible type of an entry, u'B' when it gives none (647, 660)
DeductibleTypeOf(entry) ==
    IF "DeductibleType" \in DOMAIN entry THEN entry.DeductibleType ELSE "B"

\* fault variant: the chain without its first rule
CalcRuleWithoutRule12(lim, share_prop_of_lim, dtype) ==
    IF lim = 0 /\ share_prop_of_lim > 0 /\ dtype = "B" THEN 15
    ELSE IF lim >= 0 /\ share_prop_of_lim = 0 /\ dtype = "B" THEN 1
    ELSE IF dtype = "MI" THEN 11
    ELSE IF dtype = "MA" THEN 10
    ELSE 2

\* fault variant: the rules of the minimum and the maximum deductible exchanged
CalcRuleMinMaxExchanged(lim, share_prop_of_lim, dtype) ==
    IF lim = 0 /\ share_prop_of_lim = 0 /\ dtype = "B" THEN 12
    ELSE IF lim = 0 /\ share_prop_of_lim > 0 /\ dtype = "B" THEN 15
    ELSE IF lim > 0 /\ share_prop_of_lim = 0 /\ dtype = "B" THEN 1
    ELSE IF dtype = "MI" THEN 10
    ELSE IF dtype = "MA" THEN 11
    ELSE 2

\* fault variant: rule 1 is given to limits above 1 only, so that a limit held
\* as a fraction of the TIV falls through to rule 2
CalcRuleOfAmountsOnly(lim, share_prop_of_lim, dtype) ==
    IF lim = 0 /\ share_prop_of_lim = 0 /\ dtype = "B" THEN 12
    ELSE IF lim = 0 /\ share_prop_of_lim > 0 /\ dtype = "B" THEN 15
    ELSE IF lim > One /\ share_prop_of_lim = 0 /\ dtype = "B" THEN 1
    ELSE IF dtype = "MI" THEN 11
    ELSE IF dtype = "MA" THEN 10
    ELSE 2

\* the calc rule chain (666-677)
CalcRule(lim, share_prop_of_lim, dtype) ==
    IF lim = 0 /\ share_prop_of_lim = 0 /\ dtype = "B" THEN 12
    ELSE IF lim = 0 /\ share_prop_of_lim > 0 /\ dtype = "B" THEN 15
    ELSE IF lim > 0 /\ share_prop_of_lim = 0 /\ dtype = "B" THEN 1
    ELSE IF dtype = "MI" THEN 11
    ELSE IF dtype = "MA" THEN 10
    ELSE 2

\* fault variant: a share of one half
ShareOfLimitHalf == Half

\* share_prop_of_lim (663)
ShareOfLimit == 0

\* What a pass of the loop leaves: the exception raised ("" when none), the row
\* as written so far, and the locals.
FmOutcome(raised, row, lv, dv, dt) ==
    [ raised |-> raised, row |-> row, limit_val |-> lv, ded_val |-> dv, ded_type |-> dt ]

\* the body of the match at the coverage level (639-648), for the group `terms`
CoverageTerms(terms, canexp_item, row, loc) ==
    IF "limit" \notin DOMAIN terms
    THEN FmOutcome("KeyError", row, loc.limit_val, loc.ded_val, loc.ded_type)
    ELSE
    LET limit_field_name == Lower(terms["limit"].ProfileElementName) IN
    IF limit_field_name \notin DOMAIN canexp_item
    THEN FmOutcome("KeyError", row, loc.limit_val, loc.ded_val, loc.ded_type)
    ELSE
    LET lv == canexp_item[limit_field_name]
        row1 == [ row EXCEPT !.limit = Some(TermValue(lv, row.tiv)) ]
    IN
    IF "deductible" \notin DOMAIN terms
    THEN FmOutcome("KeyError", row1, Some(lv), loc.ded_val, loc.ded_type)
    ELSE
    LET ded_field_name == Lower(terms["deductible"].ProfileElementName) IN
    IF ded_field_name \notin DOMAIN canexp_item
    THEN FmOutcome("KeyError", row1, Some(lv), loc.ded_val, loc.ded_type)
    ELSE
    LET dv == canexp_item[ded_field_name]
        dt == DeductibleTypeOf(terms["deductible"])
        row2 == [ row1 EXCEPT !.deductible = Some(TermValue(dv, row.tiv)),
                              !.deductibletype = Some(dt) ]
    IN FmOutcome("", row2, Some(lv), Some(dv), Some(dt))

\* the test of line 638: the group's TIV column is in the canonical table and
\* holds the row's TIV
TivMatches(tiv_field_name, canexp_item, row) ==
    tiv_field_name \in DOMAIN canexp_item /\ canexp_item[tiv_field_name] = row.tiv

\* the coverage branch (636-650): the groups in iteration order, up to the first
\* whose TIV column holds the row's TIV
RECURSIVE CoverageLevel(_, _, _, _, _)
CoverageLevel(order, groups, canexp_item, row, loc) ==
    IF order = << >>
    THEN FmOutcome("", row, loc.limit_val, loc.ded_val, loc.ded_type)
    ELSE
    LET terms == groups[Head(order)] IN
    IF "tiv" \notin DOMAIN terms
    THEN FmOutcome("KeyError", row, loc.limit_val, loc.ded_val, loc.ded_type)
    ELSE IF TivMatches(Lower(terms["tiv"].ProfileElementName), canexp_item, row)
    THEN CoverageTerms(terms, canexp_item, row, loc)
    ELSE CoverageLevel(Tail(order), groups, canexp_item, row, loc)

\* the deductible type of the other levels (660)
OtherLevelDeductibleType(grouped) ==
    IF \/ "coverage" \notin DOMAIN grouped
       \/ 1 \notin DOMAIN grouped["coverage"]
       \/ "deductible" \notin DOMAIN grouped["coverage"][1]
    THEN None
    ELSE Some(DeductibleTypeOf(grouped["coverage"][1]["deductible"]))

\* the branch of the other levels (652-661)
OtherLevel(grouped, canexp_item, row, loc) ==
    IF 1 \notin DOMAIN grouped[row.fm_level]
    THEN FmOutcome("KeyError", row, loc.limit_val, loc.ded_val, loc.ded_type)
    ELSE
    LET terms == grouped[row.fm_level][1]
        limit_field_name ==
            IF "limit" \in DOMAIN terms THEN Some(Lower(terms["limit"].ProfileElementName))
            ELSE None
        lv == IF limit_field_name # None /\ limit_field_name[1] \in DOMAIN canexp_item
              THEN canexp_item[limit_field_name[1]] ELSE 0
        ded_field_name ==
            IF "deductible" \in DOMAIN terms
            THEN Some(Lower(terms["deductible"].ProfileElementName))
            ELSE None
        dv == IF ded_field_name # None /\ ded_field_name[1] \in DOMAIN canexp_item
              THEN canexp_item[ded_field_name[1]] ELSE 0
        row2 == [ row EXCEPT !.limit = Some(TermValue(lv, row.tiv)),
                             !.deductible = Some(TermValue(dv, row.tiv)) ]
        dt == OtherLevelDeductibleType(grouped)
    IN IF dt = None
       THEN FmOutcome("KeyError", row2, Some(lv), Some(dv), loc.ded_type)
       ELSE FmOutcome("", [ row2 EXCEPT !.deductibletype = dt ], Some(lv), Some(dv), dt)

\* the share and the calc rule (663-679), from the locals
ShareAndCalcRule(o) ==
    LET row1 == [ o.row EXCEPT !.share = Some(ShareOfLimit) ] IN
    IF o.limit_val = None \/ o.ded_type = None
    THEN FmOutcome("UnboundLocalError", row1, o.limit_val, o.ded_val, o.ded_type)
    ELSE FmOutcome("", [ row1 EXCEPT !.calcrule =
                            Some(CalcRule(o.limit_val[1], ShareOfLimit, o.ded_type[1])) ],
                   o.limit_val, o.ded_val, o.ded_type)

\* one pass of the loop (631-679) on `row`, entered with the locals `loc`
FmRowStep(df, index, order, row, loc) ==
    LET canexp_item == CanexpRows(df, row.canlocid)[1]
        o == IF row.fm_level = "coverage"
             THEN CoverageLevel(order, index.grouped["coverage"], canexp_item, row, loc)
             ELSE OtherLevel(index.grouped, canexp_item, row, loc)
    IN IF o.raised # "" THEN o ELSE ShareAndCalcRule(o)

\* the loop (631-679) from row k on, entered with the locals `loc`: the table as
\* the loop leaves it and the exception that ended it ("" when none)
RECURSIVE FmLoop(_, _, _, _, _, _)
FmLoop(df, index, order, rows, k, loc) ==
    IF k > Len(rows) THEN [ raised |-> "", rows |-> rows ]
    ELSE LET o == FmRowStep(df, index, order, rows[k], loc)
             rows1 == [ rows EXCEPT ![k] = o.row ]
         IN IF o.raised # "" THEN [ raised |-> o.raised, rows |-> rows1 ]
            ELSE FmLoop(df, index, order, rows1, k + 1,
                        [ limit_val |-> o.limit_val, ded_val |-> o.ded_val,
                          ded_type |-> o.ded_type ])

\* the index of the profiles (598-616)
FmIndex(exposures_profile, account_profile) ==
    LET fm_term_fields == FmTermFields(exposures_profile, account_profile)
    IN [ levels |-> FmLevels(fm_term_fields), grouped |-> GroupedFmTermFields(fm_term_fields) ]

\* the orders the coverage groups of an index can be iterated in
CoverageOrders(index) ==
    IF "coverage" \in DOMAIN index.grouped THEN Orders(DOMAIN index.grouped["coverage"])
    ELSE { << >> }

(***************************************************************************)
(* The profiles.                                                           *)
(***************************************************************************)
CoverageTypes == {1, 2}

FmAttrs(level, order, type, group) ==
    [ FMLevel |-> level, FMLevelOrder |-> order, FMTermType |-> type, FMTermGroupID |-> group ]

\* An exposure profile: a TIV, a limit and a deductible entry per coverage type,
\* coverage type c in term group c, and an entry without FM attributes.
\*   dts:    DeductibleType of the deductible of each group, "" when not given
\*   cov2fm: whether the entries of coverage type 2 carry FM attributes
ExposureProfile(dts, cov2fm) ==
    LET fm(c, type) == IF c = 1 \/ cov2fm THEN FmAttrs("Coverage", 1, type, c) ELSE << >>
        val(c) == IF c = 1 THEN "WSCV1VAL" ELSE "WSCV2VAL"
        lim(c) == IF c = 1 THEN "WSCV1LIMIT" ELSE "WSCV2LIMIT"
        ded(c) == IF c = 1 THEN "WSCV1DED" ELSE "WSCV2DED"
        dt(c) == IF dts[c] # "" THEN [ DeductibleType |-> dts[c] ] ELSE << >>
    IN { [ ProfileElementName |-> "ROW_ID", FieldName |-> "RowID" ] }
       \cup { [ ProfileElementName |-> val(c), FieldName |-> "TIV", CoverageTypeID |-> c ]
                 @@ fm(c, "TIV") : c \in CoverageTypes }
       \cup { [ ProfileElementName |-> lim(c), FieldName |-> "Limit", CoverageTypeID |-> c ]
                 @@ fm(c, "Limit") : c \in CoverageTypes }
       \cup { [ ProfileElementName |-> ded(c), FieldName |-> "Deductible", CoverageTypeID |-> c ]
                 @@ fm(c, "Deductible") @@ dt(c) : c \in CoverageTypes }

\* An account profile: the limit and deductible entries of the policy level,
\* those of `terms`, in term group `group`; dt is the DeductibleType of the
\* deductible entry, "" when not given
AccountProfile(terms, group, dt) ==
    LET type(t) == IF t = "limit" THEN "Limit" ELSE "Deductible"
        name(t) == IF t = "limit" THEN "BLANLIMAMT" ELSE "BLANDEDAMT"
        field(t) == IF t = "limit" THEN "BlanketLimit" ELSE "BlanketDeductible"
        dtype(t) == IF t = "deductible" /\ dt # "" THEN [ DeductibleType |-> dt ] ELSE << >>
    IN { [ ProfileElementName |-> name(t), FieldName |-> field(t) ]
            @@ FmAttrs("Policy", 2, type(t), group) @@ dtype(t) : t \in terms }

(***************************************************************************)
(* The inputs.                                                             *)
(***************************************************************************)
\* the TIVs of the two coverage types of a location: insured, not insured (0,
\* or a negative entry)
TivValues ==
    { << Amount(1000), Amount(2000) >>, << Amount(1000), Amount(0) >>,
      << Amount(0), Amount(2000) >>, << Amount(0 - 1000), Amount(2000) >> }

GulRows(id) == { [ row_id |-> id, wscv1val |-> t[1], wscv2val |-> t[2] ] : t \in TivValues }

\* canonical tables of MaxLoc rows, row ids 1..MaxLoc (row ids are unique)
GulTables ==
    { t \in [ 1..MaxLoc -> UNION { GulRows(id) : id \in 1..MaxLoc } ] :
        \A k \in 1..MaxLoc : t[k]["row_id"] = k }

\* keys rows: the location MaxLoc + 1 has no canonical row
KeysRows(locs) ==
    { [ locid |-> l, coveragetype |-> c, areaperilid |-> 10 * l + c, vulnerabilityid |-> 20 + c ] :
        l \in locs, c \in CoverageTypes }

KeysTables(locs) == UNION { [ 1..n -> KeysRows(locs) ] : n \in 0..MaxKeys }

\* no model is registered and no call of the manager is in progress
NoManagerCall ==
    /\ models = << >>
    /\ resources = << >>
    /\ args = << >>
    /\ calls = << >>
    /\ frame = << >>

NoFm ==
    /\ gid_order = << >>
    /\ fm_index = None
    /\ fm_df = << >>
    /\ limit_val = None
    /\ ded_val = None
    /\ ded_type = None

Start(p) ==
    /\ pc = p
    /\ err = ""
    /\ i = 0
    /\ item_id = 0
    /\ result = << >>
    /\ data_frame = None
    /\ files = << >>
    /\ ret = None

\* generate_oasis_files called on the tables of a run
Init ==
    /\ canexp_df \in GulTables
    /\ keys_df \in KeysTables(1..(MaxLoc + 1))
    /\ cep = ExposureProfile(<< "", "" >>, TRUE)
    /\ cap = {}
    /\ include_fm \in BOOLEAN
    /\ Start("load_exposure")
    /\ NoFm
    /\ NoManagerCall

\* the inputs of load_fm_master_data_frame: a canonical table of one location,
\* keys rows of it and of a location the table does not hold
\* the deductible types of the two coverage groups
DeductibleTypes == { << "", "" >>, << "MI", "MA" >>, << "MA", "" >>, << "X", "" >> }

AccountProfiles ==
    { [ terms |-> {}, group |-> 1, dt |-> "" ],
      [ terms |-> { "limit" }, group |-> 1, dt |-> "" ],
      [ terms |-> { "deductible" }, group |-> 1, dt |-> "" ],
      [ terms |-> { "deductible" }, group |-> 1, dt |-> "MI" ],
      [ terms |-> { "limit", "deductible" }, group |-> 1, dt |-> "" ],
      [ terms |-> { "limit", "deductible" }, group |-> 2, dt |-> "" ] }

\* the limit and deductible columns of the first coverage group
CoverageTermValues ==
    { << Amount(0), Half >>, << Half, Amount(1500) >>, << One, Half >>,
      << Amount(1500), Amount(1500) >>, << Amount(0 - 1500), Half >> }

\* the columns of the policy level vary when the account profile names them
FmRows(acc) ==
    { [ row_id |-> 1, wscv1val |-> Amount(1000), wscv2val |-> t2,
        wscv1limit |-> ld[1], wscv1ded |-> ld[2],
        wscv2limit |-> Amount(2500), wscv2ded |-> Amount(0),
        blanlimamt |-> pl, blandedamt |-> pd ] :
        t2 \in { Amount(1000), Amount(2000) },
        ld \in CoverageTermValues,
        pl \in IF "limit" \in acc.terms THEN { Amount(0), Half, Amount(3000) } ELSE { Amount(0) },
        pd \in IF "deductible" \in acc.terms THEN { One, Amount(200) } ELSE { Amount(0) } }

\* keys rows of location 1, and one of location 2, which has no canonical row
FmKeysRows == KeysRows({ 1 }) \cup { r \in KeysRows({ 2 }) : r.coveragetype = 1 }

FmKeysTables == UNION { [ 1..n -> FmKeysRows ] : n \in 0..MaxKeys }

\* load_fm_master_data_frame called on the tables of a run
InitFM ==
    /\ \E dts \in DeductibleTypes, cov2fm \in BOOLEAN, acc \in AccountProfiles :
          /\ cov2fm \/ acc.terms = {}
          /\ cep = ExposureProfile(dts, cov2fm)
          /\ cap = AccountProfile(acc.terms, acc.group, acc.dt)
          /\ \E row \in FmRows(acc) : canexp_df = << row >>
    /\ keys_df \in FmKeysTables
    /\ include_fm = TRUE
    /\ Start("fm_load_exposure")
    /\ NoFm
    /\ NoManagerCall

\* The profiles of other shapes.
\* a profile without the entries of the given element names
Without(profile, names) == { v \in profile : v.ProfileElementName \notin names }

\* the element names of a profile that names its columns by term first
TermFirstName(n) ==
    CASE n = "WSCV1VAL" -> "TIV1"
      [] n = "WSCV1LIMIT" -> "LIM1"
      [] n = "WSCV1DED" -> "DED1"
      [] n = "WSCV2VAL" -> "TIV2"
      [] n = "WSCV2LIMIT" -> "LIM2"
      [] n = "WSCV2DED" -> "DED2"
      [] OTHER -> n

TermFirst(profile) ==
    { [ v EXCEPT !.ProfileElementName = TermFirstName(@) ] : v \in profile }

\* an account profile entry of the layer level that is no TIV, limit or
\* deductible term
ShareProfile ==
    { [ ProfileElementName |-> "LAYERSHARE", FieldName |-> "LayerShare" ]
         @@ FmAttrs("Layer", 3, "Share", 1) }

\* a canonical row without one of its columns
Drop(row, column) == [ c \in DOMAIN row \ { column } |-> row[c] ]

\* the canonical row of location 1 under the usual element names
ProfiledRow ==
    [ row_id |-> 1, wscv1val |-> Amount(1000), wscv2val |-> Amount(2000),
      wscv1limit |-> Half, wscv1ded |-> Amount(200),
      wscv2limit |-> Amount(2500), wscv2ded |-> Amount(0),
      blanlimamt |-> Amount(3000), blandedamt |-> Half ]

\* the same row under the term-first element names
TermFirstRow ==
    [ row_id |-> 1, tiv1 |-> Amount(1000), tiv2 |-> Amount(2000),
      lim1 |-> Half, ded1 |-> Amount(200), lim2 |-> Amount(2500), ded2 |-> Amount(0),
      blanlimamt |-> Amount(3000), blandedamt |-> Half ]

\* exposure profile and canonical row: the full profile on the full row and on
\* rows that lack a column, profiles that lack an entry of the first coverage
\* group, and the term-first profile
ExposureShapes ==
    LET full == ExposureProfile(<< "", "" >>, TRUE) IN
    { [ cep |-> full, row |-> ProfiledRow ] }
    \cup { [ cep |-> full, row |-> Drop(ProfiledRow, c) ] :
              c \in { "wscv1limit", "wscv1ded", "blanlimamt", "blandedamt" } }
    \cup { [ cep |-> Without(full, { n }), row |-> ProfiledRow ] :
              n \in { "WSCV1LIMIT", "WSCV1DED" } }
    \cup { [ cep |-> TermFirst(full), row |-> TermFirstRow ] }

AccountShapes ==
    { {}, ShareProfile, AccountProfile({ "limit", "deductible" }, 1, ""),
      AccountProfile({ "limit", "deductible" }, 1, "") \cup ShareProfile }

\* load_fm_master_data_frame called on profiles of these shapes
InitShapes ==
    /\ \E shape \in ExposureShapes :
          /\ cep = shape.cep
          /\ canexp_df = << shape.row >>
    /\ cap \in AccountShapes
    /\ keys_df \in FmKeysTables
    /\ include_fm = TRUE
    /\ Start("fm_load_exposure")
    /\ NoFm
    /\ NoManagerCall

(***************************************************************************)
(* generate_oasis_files -> generate_gul_files                              *)
(***************************************************************************)
UnchangedManager == UNCHANGED << models, resources, args, calls, frame >>
UnchangedInputs ==
    /\ UNCHANGED << canexp_df, keys_df, cep, cap, include_fm >>
    /\ UnchangedManager
UnchangedFm == UNCHANGED << gid_order, fm_index, fm_df, limit_val, ded_val, ded_type >>

\* one pass of the loop of load_exposure_master_data_frame (549-577)
LoadExposureRow ==
    /\ pc = "load_exposure"
    /\ i < Len(keys_df)
    /\ LET s == ExposureStep(canexp_df, keys_df, cep, i + 1,
                             [ item_id |-> item_id, result |-> result ])
       IN IF s.raised # ""
          THEN /\ pc' = "raised"
               /\ err' = s.raised
               /\ UNCHANGED << i, item_id, result >>
          ELSE /\ i' = i + 1
               /\ item_id' = s.item_id
               /\ result' = s.result
               /\ UNCHANGED << pc, err >>
    /\ UNCHANGED << data_frame, files, ret >>
    /\ UnchangedInputs /\ UnchangedFm

\* return result (579), received by generate_gul_files (790)
LoadExposureReturn ==
    /\ pc = "load_exposure"
    /\ i = Len(keys_df)
    /\ data_frame' = Some(result)
    /\ pc' = "generate_items_file"
    /\ UNCHANGED << err, i, item_id, result, files, ret >>
    /\ UnchangedInputs /\ UnchangedFm

\* fault variant: only the first row of the table is written
WriteCsvsFirstRow(columns, df) ==
    [ k \in 1..(IF Len(df) > 0 THEN 1 ELSE 0) |-> [ c \in columns |-> df[k][c] ] ]

\* _write_csvs (682-689): the columns of every row, in table order
WriteCsvs(columns, df) ==
    [ k \in 1..Len(df) |-> [ c \in columns |-> df[k][c] ] ]

ItemsColumns == { "item_id", "coverage_id", "areaperil_id", "vulnerability_id", "group_id" }
CoveragesColumns == { "coverage_id", "tiv" }
GulsummaryxrefColumns == { "coverage_id", "summary_id", "summaryset_id" }

GenerateFile(at, key, columns, next) ==
    /\ pc = at
    /\ files' = (key :> WriteCsvs(columns, data_frame[1])) @@ files
    /\ pc' = next
    /\ UNCHANGED << err, i, item_id, result, data_frame, ret >>
    /\ UnchangedInputs /\ UnchangedFm

\* generate_items_file (691-709), called at 792
GenerateItemsFile ==
    GenerateFile("generate_items_file", "items", ItemsColumns, "generate_coverages_file")

\* generate_coverages_file (711-729), called at 793
GenerateCoveragesFile ==
    GenerateFile("generate_coverages_file", "coverages", CoveragesColumns,
                 "generate_gulsummaryxref_file")

\* generate_gulsummaryxref_file (731-749), called at 794
GenerateGulsummaryxrefFile ==
    GenerateFile("generate_gulsummaryxref_file", "gulsummaryxref", GulsummaryxrefColumns,
                 "gul_files_done")

GulFilePaths == { "items_file_path", "coverages_file_path", "gulsummaryxref_file_path" }

\* generate_oasis_files, include_fm false (832-833): the GUL paths are returned
ReturnGulFiles ==
    /\ pc = "gul_files_done"
    /\ ~include_fm
    /\ ret' = Some(GulFilePaths)
    /\ pc' = "done"
    /\ UNCHANGED << err, i, item_id, result, data_frame, files >>
    /\ UnchangedInputs /\ UnchangedFm

\* generate_fm_files (812-813): self.load_fm_exposure_master_data_frame is no
\* attribute of the manager
GenerateFmFiles ==
    /\ pc = "gul_files_done"
    /\ include_fm
    /\ pc' = "raised"
    /\ err' = "AttributeError"
    /\ UNCHANGED << i, item_id, result, data_frame, files, ret >>
    /\ UnchangedInputs /\ UnchangedFm

Next ==
    \/ LoadExposureRow
    \/ LoadExposureReturn
    \/ GenerateItemsFile
    \/ GenerateCoveragesFile
    \/ GenerateGulsummaryxrefFile
    \/ ReturnGulFiles
    \/ GenerateFmFiles

Spec == Init /\ [][Next]_vars

(***************************************************************************)
(* The item table (load_exposure_master_data_frame, generate_gul_files).   *)
(***************************************************************************)

\* whether keys row k has a canonical row, and that row
HasCanonicalRow(k) == \E r \in Range(canexp_df) : r["row_id"] = keys_df[k].locid
CanonicalRowOf(k) == CHOOSE r \in Range(canexp_df) : r["row_id"] = keys_df[k].locid

\* the TIV of keys row k: the canonical row's column named by the TIV entry of
\* the row's coverage type
TivEntryOf(c) ==
    CHOOSE v \in cep : "FieldName" \in DOMAIN v /\ v.FieldName = "TIV" /\ v.CoverageTypeID = c
KeysRowTiv(k) ==
    CanonicalRowOf(k)[Lower(TivEntryOf(keys_df[k].coveragetype).ProfileElementName)]

\* the keys rows among the first n whose TIV is positive, and the k-th of them
InsuredRows(n) == { k \in 1..n : HasCanonicalRow(k) /\ KeysRowTiv(k) > 0 }
SourceRow(k) ==
    CHOOSE r \in InsuredRows(Len(keys_df)) :
        Cardinality({ q \in InsuredRows(Len(keys_df)) : q <= r }) = k

\* C1: when the loader returns, the item ids of the returned table are 1, 2, ..., n
\* in output order, and the k-th item is the one of the k-th keys row that produced
\* an item (it carries that row's area peril and vulnerability ids).
ItemIdsContiguousInKeysOrder ==
    data_frame # None =>
        \A k \in 1..Len(data_frame[1]) :
            /\ data_frame[1][k].item_id = k
            /\ k <= Cardinality(InsuredRows(Len(keys_df)))
            /\ data_frame[1][k].areaperil_id = keys_df[SourceRow(k)].areaperilid
            /\ data_frame[1][k].vulnerability_id = keys_df[SourceRow(k)].vulnerabilityid

\* C1 witness: two different keys rows gave the items 1 and 2.
TwoItemsReturned ==
    /\ data_frame # None
    /\ Len(data_frame[1]) = 2
    /\ keys_df[1] # keys_df[2]

\* C2: no item is emitted for a keys row whose TIV is <= 0: every item of the table
\* under construction and of the returned table has tiv > 0, and the table holds no
\* more items than keys rows of positive TIV were passed.
NoItemWithoutInsuredValue ==
    /\ \A k \in 1..Len(result) : result[k].tiv > 0
    /\ pc = "load_exposure" => Len(result) <= Cardinality(InsuredRows(i))
    /\ data_frame # None => \A k \in 1..Len(data_frame[1]) : data_frame[1][k].tiv > 0

\* C2 witness: the loader returned an item although a keys row had a TIV <= 0.
UninsuredRowPassedOver ==
    /\ data_frame # None
    /\ Len(data_frame[1]) >= 1
    /\ \E k \in 1..Len(keys_df) : KeysRowTiv(k) <= 0

\* C3: exactly one item per keys row of positive TIV: after i keys rows the table
\* holds as many items as there are rows of positive TIV among them, and so does
\* the returned table for the whole keys table.
OneItemPerInsuredRow ==
    /\ pc = "load_exposure" => Len(result) = Cardinality(InsuredRows(i))
    /\ data_frame # None =>
           Len(data_frame[1]) = Cardinality(InsuredRows(Len(keys_df)))

\* C3 witness: two keys rows of the same location, the first of positive TIV and
\* the second not, gave one item.
OneOfTwoRowsInsured ==
    /\ data_frame # None
    /\ Len(keys_df) = 2
    /\ keys_df[1].locid = keys_df[2].locid
    /\ KeysRowTiv(1) > 0
    /\ KeysRowTiv(2) <= 0
    /\ Len(data_frame[1]) = 1

\* C4: every returned item has coverage_id = group_id = item_id, the tiv read from
\* the canonical row and, as canloc_id, the locid of the keys row that produced it.
ItemCarriesSourceRow ==
    data_frame # None =>
        \A k \in 1..Len(data_frame[1]) :
            /\ data_frame[1][k].coverage_id = data_frame[1][k].item_id
            /\ data_frame[1][k].group_id = data_frame[1][k].item_id
            /\ k <= Cardinality(InsuredRows(Len(keys_df)))
            /\ data_frame[1][k].tiv = KeysRowTiv(SourceRow(k))
            /\ data_frame[1][k].canloc_id = keys_df[SourceRow(k)].locid

\* C4 witness: a canonical row 1 with coverage TIV 1000 and one keys row of it gave
\* one item with tiv 1000 and item_id = coverage_id = group_id = 1.
SingleItemOfTiv1000 ==
    /\ Len(keys_df) = 1
    /\ keys_df[1].locid = 1 /\ keys_df[1].coveragetype = 1
    /\ data_frame # None
    /\ Len(data_frame[1]) = 1
    /\ data_frame[1][1].tiv = Amount(1000)
    /\ data_frame[1][1].item_id = 1
    /\ data_frame[1][1].coverage_id = 1
    /\ data_frame[1][1].group_id = 1
    /\ data_frame[1][1].canloc_id = 1

\* C5: when a keys row has no canonical row, the loader never returns a table and
\* generate_gul_files writes no file: the run stays in the loader's loop, which
\* cannot pass the last row, or has ended with OasisException.
SomeKeysRowUnmatched == \E k \in 1..Len(keys_df) : ~HasCanonicalRow(k)

UnmatchedKeysRowAborts ==
    SomeKeysRowUnmatched =>
        /\ data_frame = None
        /\ files = << >>
        /\ ret = None
        /\ pc \in { "load_exposure", "raised" }
        /\ pc = "load_exposure" => i < Len(keys_df)
        /\ pc = "raised" => err = "OasisException"

\* C5 witness: the loader raised after an earlier keys row had produced an item,
\* and nothing was returned or written.
RaisedAfterAnItem ==
    /\ pc = "raised"
    /\ err = "OasisException"
    /\ Len(result) >= 1
    /\ data_frame = None
    /\ files = << >>

(***************************************************************************)
(* load_fm_master_data_frame, called directly                              *)
(***************************************************************************)
Locals == [ limit_val |-> limit_val, ded_val |-> ded_val, ded_type |-> ded_type ]

\* the call of load_exposure_master_data_frame (583)
FmLoadExposure ==
    /\ pc = "fm_load_exposure"
    /\ LET o == LoadExposureMasterDataFrame(canexp_df, keys_df, cep)
       IN IF o.raised # ""
          THEN /\ pc' = "raised"
               /\ err' = o.raised
               /\ UNCHANGED data_frame
          ELSE /\ pc' = "fm_index"
               /\ data_frame' = Some(o.result)
               /\ UNCHANGED err
    /\ UNCHANGED << i, item_id, result, files, ret >>
    /\ UnchangedInputs /\ UnchangedFm

\* the index of the profiles and the preset table (598-629)
FmBuildIndex ==
    /\ pc = "fm_index"
    /\ LET index == FmIndex(cep, cap)
       IN /\ fm_index' = Some(index)
          /\ gid_order' \in CoverageOrders(index)
          /\ fm_df' = FmData(index.levels, data_frame[1])
    /\ i' = 0
    /\ pc' = "fm_rows"
    /\ UNCHANGED << err, item_id, result, data_frame, files, ret, limit_val, ded_val, ded_type >>
    /\ UnchangedInputs

\* one pass of the loop over the table (631-679)
FmResolveRow ==
    /\ pc = "fm_rows"
    /\ i < Len(fm_df)
    /\ LET o == FmRowStep(canexp_df, fm_index[1], gid_order, fm_df[i + 1], Locals)
       IN /\ fm_df' = [ fm_df EXCEPT ![i + 1] = o.row ]
          /\ limit_val' = o.limit_val
          /\ ded_val' = o.ded_val
          /\ ded_type' = o.ded_type
          /\ IF o.raised # ""
             THEN pc' = "raised" /\ err' = o.raised /\ UNCHANGED i
             ELSE i' = i + 1 /\ UNCHANGED << pc, err >>
    /\ UNCHANGED << item_id, result, data_frame, files, ret, gid_order, fm_index >>
    /\ UnchangedInputs

\* the end of the function (679): nothing is returned
FmReturn ==
    /\ pc = "fm_rows"
    /\ i = Len(fm_df)
    /\ ret' = Some(None)
    /\ pc' = "done"
    /\ UNCHANGED << err, i, item_id, result, data_frame, files >>
    /\ UnchangedInputs /\ UnchangedFm

NextFM ==
    \/ FmLoadExposure
    \/ FmBuildIndex
    \/ FmResolveRow
    \/ FmReturn

SpecFM == InitFM /\ [][NextFM]_vars

SpecShapes == InitShapes /\ [][NextFM]_vars

(***************************************************************************)
(* The FM-term table (load_fm_master_data_frame).                          *)
(***************************************************************************)
\* the rows the loop has passed
Processed == IF pc \in { "fm_rows", "done" } THEN 1..i ELSE {}

\* the locals before the first pass of the loop: none is bound
UnboundLocals == [ limit_val |-> None, ded_val |-> None, ded_type |-> None ]

\* a row as the preset table holds it, before its pass
Unresolved(row) ==
    FmPresetRow(row.fm_level,
                [ item_id |-> row.itemid, canloc_id |-> row.canlocid, tiv |-> row.tiv ])

\* fraction of TIV or amount: what a column value v is to be stored as
Stored(v, tiv) == IF v <= One THEN (v * tiv) \div Scale ELSE v

\* C6: every row of the FM-term table whose deductible type is 'B' and whose share
\* is 0 has calc rule 12 when its resolved limit is 0 and calc rule 1 when its
\* resolved limit is greater than 0.
CalcRuleOfPlainDeductible ==
    \A k \in 1..Len(fm_df) :
        LET row == fm_df[k] IN
        (row.deductibletype = Some("B") /\ row.share = Some(0)) =>
            /\ (row.limit = Some(0) => row.calcrule = Some(12))
            /\ (row.limit # None /\ row.limit[1] > 0 => row.calcrule = Some(1))

\* C6 witness: the finished table holds a 'B' row of limit 0 with rule 12 and a 'B'
\* row of positive limit with rule 1.
Rule12AndRule1Given ==
    /\ pc = "done"
    /\ \E k1, k2 \in 1..Len(fm_df) :
          /\ fm_df[k1].deductibletype = Some("B") /\ fm_df[k1].share = Some(0)
          /\ fm_df[k1].limit = Some(0) /\ fm_df[k1].calcrule = Some(12)
          /\ fm_df[k2].deductibletype = Some("B") /\ fm_df[k2].share = Some(0)
          /\ fm_df[k2].limit = Some(Amount(1500)) /\ fm_df[k2].calcrule = Some(1)

\* C7: every row of the FM-term table whose deductible type is 'MI' has calc rule
\* 11 and every row whose deductible type is 'MA' has calc rule 10, whatever its
\* limit and share.
CalcRuleOfMinMaxDeductible ==
    \A k \in 1..Len(fm_df) :
        LET row == fm_df[k] IN
        /\ row.deductibletype = Some("MI") => row.calcrule = Some(11)
        /\ row.deductibletype = Some("MA") => row.calcrule = Some(10)

\* C7 witness: the finished table holds an 'MI' row of limit 0 with rule 11 and an
\* 'MA' row of positive limit with rule 10.
Rule11AndRule10Given ==
    /\ pc = "done"
    /\ \E k1, k2 \in 1..Len(fm_df) :
          /\ fm_df[k1].deductibletype = Some("MI") /\ fm_df[k1].limit = Some(0)
          /\ fm_df[k1].calcrule = Some(11)
          /\ fm_df[k2].deductibletype = Some("MA") /\ fm_df[k2].limit = Some(Amount(2500))
          /\ fm_df[k2].calcrule = Some(10)

\* C8: the values written to a row depend only on the row's own item, level and
\* canonical row and on the profile, whatever rows were processed before it: every
\* row the loop has passed holds what its pass writes when no row came before it.
RowResolvedFromOwnInputs ==
    \A k \in Processed :
        fm_df[k] = FmRowStep(canexp_df, fm_index[1], gid_order,
                             Unresolved(fm_df[k]), UnboundLocals).row

\* C9: the outcome of a run does not depend on the order the term groups of the
\* coverage level are iterated in: whatever that order, the loop ends the same
\* way and leaves the same table.
TableWhateverGroupOrder ==
    (pc \in { "done", "raised" } /\ fm_index # None) =>
        \A order \in CoverageOrders(fm_index[1]) :
            LET run == FmLoop(canexp_df, fm_index[1], order,
                              FmData(fm_index[1].levels, data_frame[1]), 1, UnboundLocals)
            IN run.raised = err /\ run.rows = fm_df

\* C10: the limit and the deductible of a row, at the coverage level and at the
\* other levels, are the column value v times the TIV when v <= 1 and v itself
\* when v > 1; the column values of the row just passed are limit_val and ded_val.
TermsScaledByTiv ==
    (pc \in { "fm_rows", "done" } /\ i > 0) =>
        LET row == fm_df[i] IN
        /\ row.limit # None => row.limit = Some(Stored(limit_val[1], row.tiv))
        /\ row.deductible # None => row.deductible = Some(Stored(ded_val[1], row.tiv))

\* C10 witness: at TIV 1000 the coverage row stored the limit 1 as 1000 and the
\* deductible 0.5 as 500, and the policy row just passed stored the limit 3000
\* as 3000 and the deductible 1 as 1000.
FractionsAndAmountsStored ==
    /\ pc = "fm_rows" /\ i = 2 /\ Len(fm_df) = 2
    /\ fm_df[1].fm_level = "coverage" /\ fm_df[1].tiv = Amount(1000)
    /\ canexp_df[1].wscv1limit = One /\ fm_df[1].limit = Some(Amount(1000))
    /\ canexp_df[1].wscv1ded = Half /\ fm_df[1].deductible = Some(Amount(500))
    /\ fm_df[2].fm_level = "policy" /\ fm_df[2].tiv = Amount(1000)
    /\ limit_val = Some(Amount(3000)) /\ fm_df[2].limit = Some(Amount(3000))
    /\ ded_val = Some(One) /\ fm_df[2].deductible = Some(Amount(1000))

(***************************************************************************)
(* The terms the profiles declare, read off the profiles themselves.       *)
(***************************************************************************)
\* the entries of the two profiles that carry FM attributes
FmEntries == { v \in cep \cup cap : "FMLevel" \in DOMAIN v }

\* the entries declared for a level, a term group and a term type
DeclaredEntries(level, group, type) ==
    { v \in FmEntries : /\ Lower(v.FMLevel) = level
                         /\ v.FMTermGroupID = group
                         /\ Lower(v.FMTermType) = type }

\* the canonical row of an FM-term row
CanonicalRowOfTerm(row) == CanexpRows(canexp_df, row.canlocid)[1]

\* the term groups of a row: at the coverage level those whose TIV column holds
\* the row's TIV, at another level those declared for the level
TermGroupsOf(row) ==
    { v.FMTermGroupID : v \in
        { e \in FmEntries :
            /\ Lower(e.FMLevel) = row.fm_level
            /\ row.fm_level = "coverage" =>
                  /\ Lower(e.FMTermType) = "tiv"
                  /\ Lower(e.ProfileElementName) \in DOMAIN CanonicalRowOfTerm(row)
                  /\ CanonicalRowOfTerm(row)[Lower(e.ProfileElementName)] = row.tiv } }

\* the profile declares no entry of the type for the row's level and term group
LacksEntry(row, type) ==
    \E g \in TermGroupsOf(row) : DeclaredEntries(row.fm_level, g, type) = {}

\* the loop raised in the pass of row i + 1
RaisedInPass == pc = "raised" /\ fm_index # None

\* C11: at every level, the coverage level included, a row whose level and term
\* group have no limit entry (no deductible entry) in the profile gets the limit
\* (the deductible) 0, and its pass does not raise.
MissingEntryDefaultsToZero ==
    /\ \A k \in Processed :
          /\ LacksEntry(fm_df[k], "limit") => fm_df[k].limit = Some(0)
          /\ LacksEntry(fm_df[k], "deductible") => fm_df[k].deductible = Some(0)
    /\ RaisedInPass =>
          /\ ~LacksEntry(fm_df[i + 1], "limit")
          /\ ~LacksEntry(fm_df[i + 1], "deductible")

\* the deductible entries a level declares
DeductibleEntriesOf(level) ==
    { v \in FmEntries : Lower(v.FMLevel) = level /\ Lower(v.FMTermType) = "deductible" }

\* the deductible type a level declares: that of its deductible entry, 'B' when
\* it has no such entry or the entry gives no type
DeclaredDeductibleType(level) ==
    IF \E e \in DeductibleEntriesOf(level) : "DeductibleType" \in DOMAIN e
    THEN (CHOOSE e \in DeductibleEntriesOf(level) : "DeductibleType" \in DOMAIN e).DeductibleType
    ELSE "B"

\* C12: a row of a non-coverage level has the deductible type of the level's own
\* deductible entry, 'B' when the level declares none or gives no type; a level
\* without deductible entry gets deductible 0, type 'B' and the calc rule of the
\* table for type 'B'.
OwnLevelDeductibleType ==
    \A k \in Processed :
        LET row == fm_df[k] IN
        row.fm_level # "coverage" =>
            /\ row.deductibletype = Some(DeclaredDeductibleType(row.fm_level))
            /\ DeductibleEntriesOf(row.fm_level) = {} =>
                  /\ row.deductible = Some(0)
                  /\ row.calcrule = Some(IF row.limit = Some(0) THEN 12 ELSE 1)

\* the entries of the type, for the row's level and term group, that name a
\* column the canonical row does not have
AbsentColumnEntries(row, type) ==
    UNION { { e \in DeclaredEntries(row.fm_level, g, type) :
                Lower(e.ProfileElementName) \notin DOMAIN CanonicalRowOfTerm(row) } :
            g \in TermGroupsOf(row) }

\* C13: at every level, a row whose limit entry (deductible entry) names a column
\* that the canonical row does not have gets the limit (the deductible) 0, and
\* its pass does not raise.
AbsentColumnDefaultsToZero ==
    /\ \A k \in Processed :
          /\ AbsentColumnEntries(fm_df[k], "limit") # {} => fm_df[k].limit = Some(0)
          /\ AbsentColumnEntries(fm_df[k], "deductible") # {} => fm_df[k].deductible = Some(0)
    /\ RaisedInPass =>
          /\ AbsentColumnEntries(fm_df[i + 1], "limit") = {}
          /\ AbsentColumnEntries(fm_df[i + 1], "deductible") = {}

\* the levels the entries of the two profiles declare
DeclaredLevels == { Lower(v.FMLevel) : v \in FmEntries }

\* the table is built: the loop is running or has ended
TableBuilt == pc \in { "fm_rows", "done" }

\* the rows of the table for an item and a level
RowsOf(id, level) ==
    { k \in 1..Len(fm_df) : fm_df[k].itemid = id /\ fm_df[k].fm_level = level }

\* C14: the FM-term table holds exactly one row for every item of the item table
\* and every level declared by an entry of the two profiles, and no other row.
OneRowPerItemAndLevel ==
    TableBuilt =>
        LET items == data_frame[1] IN
        /\ \A n \in 1..Len(items), level \in DeclaredLevels :
              Cardinality(RowsOf(items[n].item_id, level)) = 1
        /\ \A k \in 1..Len(fm_df) :
              /\ fm_df[k].fm_level \in DeclaredLevels
              /\ \E n \in 1..Len(items) : items[n].item_id = fm_df[k].itemid

\* the FMLevelOrder the entries of a level give it
LevelOrderOf(level) == (CHOOSE v \in FmEntries : Lower(v.FMLevel) = level).FMLevelOrder

\* C15: the rows of the FM-term table are level-major and item-minor: ascending
\* in FMLevelOrder, the rows of a level contiguous, and within a level ascending
\* in item_id.
RowsLevelMajorItemMinor ==
    TableBuilt =>
        \A k, l \in 1..Len(fm_df) :
            k < l =>
                /\ LevelOrderOf(fm_df[k].fm_level) <= LevelOrderOf(fm_df[l].fm_level)
                /\ fm_df[k].fm_level = fm_df[l].fm_level =>
                      /\ fm_df[k].itemid < fm_df[l].itemid
                      /\ \A m \in k..l : fm_df[m].fm_level = fm_df[k].fm_level

\* C15 witness: two items and two levels gave the rows (coverage, 1),
\* (coverage, 2), (policy, 1), (policy, 2) in this order.
TwoLevelsOfTwoItems ==
    /\ TableBuilt
    /\ Len(fm_df) = 4
    /\ << fm_df[1].fm_level, fm_df[1].itemid >> = << "coverage", 1 >>
    /\ << fm_df[2].fm_level, fm_df[2].itemid >> = << "coverage", 2 >>
    /\ << fm_df[3].fm_level, fm_df[3].itemid >> = << "policy", 1 >>
    /\ << fm_df[4].fm_level, fm_df[4].itemid >> = << "policy", 2 >>

\* the TIV, deductible and limit entries of the two profiles
DeclaredTermEntries == { v \in FmEntries : Lower(v.FMTermType) \in FmTermTypes }

\* an entry is in the index under its level, its term group and its term type
Indexed(e) ==
    LET grouped == fm_index[1].grouped IN
    /\ Lower(e.FMLevel) \in DOMAIN grouped
    /\ e.FMTermGroupID \in DOMAIN grouped[Lower(e.FMLevel)]
    /\ Lower(e.FMTermType) \in DOMAIN grouped[Lower(e.FMLevel)][e.FMTermGroupID]
    /\ grouped[Lower(e.FMLevel)][e.FMTermGroupID][Lower(e.FMTermType)] = e

\* C16: the index holds every TIV, deductible and limit entry of the two profiles
\* under its lower-cased level, its term group and its term type, whatever the
\* element names of the entries.
EveryTermEntryIndexed ==
    fm_index # None => \A e \in DeclaredTermEntries : Indexed(e)

\* a level that an entry of the profiles refers to and that has no TIV,
\* deductible or limit entry
LevelsWithoutTermEntries ==
    { level \in DeclaredLevels :
        \A e \in DeclaredTermEntries : Lower(e.FMLevel) # level }

\* C17: when a level the profiles refer to has no term entries, building the
\* index fails: the index is not built and no FM-term row is produced.
DegenerateProfileRejected ==
    LevelsWithoutTermEntries # {} => (fm_index = None /\ fm_df = << >>)

(***************************************************************************)
(* generate_oasis_files and the files it writes.                           *)
(***************************************************************************)
\* C18: generate_oasis_files with include_fm = True, on tables in which every
\* keys row has its canonical row, runs to completion: it does not raise, and
\* once the GUL files are written it goes on to return the file paths.
FmRunCompletes ==
    (include_fm /\ ~SomeKeysRowUnmatched) => pc # "raised"

\* the three GUL files are written
GulFilesWritten == DOMAIN files = { "items", "coverages", "gulsummaryxref" }

\* the coverage ids a file holds
CoverageIdsOf(file) == { file[k].coverage_id : k \in 1..Len(file) }

\* C19: the three GUL files are projections of the one item table: each has one
\* row per item in item order, items with (item_id, coverage_id, areaperil_id,
\* vulnerability_id, group_id), coverages with (coverage_id, tiv), gulsummaryxref
\* with (coverage_id, summary_id, summaryset_id); their coverage ids are the same.
GulFilesProjectItemTable ==
    GulFilesWritten =>
        LET items == data_frame[1] IN
        /\ \A f \in DOMAIN files : Len(files[f]) = Len(items)
        /\ \A k \in 1..Len(items) :
              /\ files["items"][k] =
                    [ item_id |-> items[k].item_id, coverage_id |-> items[k].coverage_id,
                      areaperil_id |-> items[k].areaperil_id,
                      vulnerability_id |-> items[k].vulnerability_id,
                      group_id |-> items[k].group_id ]
              /\ files["coverages"][k] =
                    [ coverage_id |-> items[k].coverage_id, tiv |-> items[k].tiv ]
              /\ files["gulsummaryxref"][k] =
                    [ coverage_id |-> items[k].coverage_id,
                      summary_id |-> items[k].summary_id,
                      summaryset_id |-> items[k].summaryset_id ]
        /\ CoverageIdsOf(files["items"]) = CoverageIdsOf(files["coverages"])
        /\ CoverageIdsOf(files["coverages"]) = CoverageIdsOf(files["gulsummaryxref"])

\* C19 witness: generate_gul_files returned the three paths after writing the
\* files of a table of two items.
GulFilesOfTwoItems ==
    /\ pc = "done"
    /\ ret = Some(GulFilePaths)
    /\ GulFilesWritten
    /\ Len(data_frame[1]) = 2
    /\ CoverageIdsOf(files["coverages"]) = { 1, 2 }

\* C20: every row the loop has passed has share 0, whatever its item, its level
\* and the profiles.
ShareAlwaysZero ==
    \A k \in Processed : fm_df[k].share = Some(0)

\* C20 witness: the finished table holds the rows of two items at the coverage
\* and the policy level, of different limits, all of share 0.
ShareZeroAtTwoLevels ==
    /\ pc = "done"
    /\ Len(fm_df) = 4
    /\ fm_df[1].fm_level = "coverage" /\ fm_df[4].fm_level = "policy"
    /\ fm_df[1].limit # fm_df[2].limit
    /\ \A k \in 1..4 : fm_df[k].share = Some(0)

(***************************************************************************)
(* The manager: paths, models and their resources.                         *)
(***************************************************************************)
\* A path is the sequence of its components; an absolute path starts at "/".
IsAbs(p) == p # << >> /\ Head(p) = "/"

\* the working directory of the process
Cwd == << "/", "cwd" >>

\* os.path.abspath
Abspath(p) == IF IsAbs(p) THEN p ELSE Cwd \o p

\* os.path.join(directory, name)
Join(directory, name) == directory \o << name >>

\* a or b: a when it is given (not None), else b
Or(a, b) == IF a # None THEN a ELSE b

\* the tables and the loops of the derivation are not in use
NoTables ==
    /\ canexp_df = << >>
    /\ keys_df = << >>
    /\ cep = {}
    /\ cap = {}
    /\ i = 0
    /\ item_id = 0
    /\ result = << >>
    /\ data_frame = None
    /\ files = << >>
    /\ NoFm

UnchangedTables ==
    UNCHANGED << canexp_df, keys_df, cep, cap, i, item_id, result, data_frame, files,
                 gid_order, fm_index, fm_df, limit_val, ded_val, ded_type >>

\* the fields of a files pipeline
PipelineFields ==
    { "canonical_exposures_file_path", "canonical_account_file_path",
      "model_exposures_file_path", "keys_file_path", "keys_errors_file_path",
      "items_file_path", "coverages_file_path", "gulsummaryxref_file_path",
      "fm_policytc_file_path", "fm_profile_file_path", "fm_programme_file_path",
      "fm_xref_file_path", "fmsummaryxref_file_path" }

\* a files pipeline after clear(): no path is set
ClearedPipeline == [ f \in PipelineFields |-> None ]

\* a files pipeline with the paths of an earlier run
FilledPipeline == [ f \in PipelineFields |-> Some(<< "/", "run", f >>) ]

(***************************************************************************)
(* get_keys                                                                *)
(***************************************************************************)
\* OasisKeysLookupFactory().save_keys: the keys file and the keys errors file
\* are written at the paths given, which are returned
SaveKeys(call) ==
    [ keys_file_path |-> call.keys_file_path,
      keys_errors_file_path |-> call.keys_errors_file_path ]

\* the path made absolute when it is given and relative (455)
AbsIfRelative(p) == IF p # None /\ ~IsAbs(p[1]) THEN Some(Abspath(p[1])) ELSE p

\* get_keys (448-470) on the arguments a and the resources res of the models:
\* the exception raised ("" when none), the call of save_keys made, the value
\* returned and the resources as the call leaves them
GetKeys(a, res) ==
    IF a.oasis_model = None
    THEN [ raised |-> "UnboundLocalError", call |-> None, ret |-> None, resources |-> res ]
    ELSE
    LET m == a.oasis_model[1]
        pipeline == res[m].oasis_files_pipeline
        call == [ op |-> "save_keys",
                  keys_file_path |->
                      AbsIfRelative(Or(a.keys_file_path, pipeline.keys_file_path)),
                  keys_errors_file_path |->
                      AbsIfRelative(Or(a.keys_errors_file_path, pipeline.keys_errors_file_path)),
                  lookup |-> Or(a.lookup, res[m].lookup),
                  model_exposures_file_path |->
                      AbsIfRelative(Or(a.model_exposures_file_path,
                                       pipeline.model_exposures_file_path)) ]
        saved == SaveKeys(call)
    IN [ raised |-> "",
         call |-> Some(call),
         ret |-> Some(<< saved.keys_file_path, saved.keys_errors_file_path >>),
         resources |->
             [ res EXCEPT ![m].oasis_files_pipeline =
                 [ @ EXCEPT !.keys_file_path = saved.keys_file_path,
                            !.keys_errors_file_path = saved.keys_errors_file_path ] ] ]

\* the call of get_keys
GetKeysCall ==
    /\ pc = "get_keys"
    /\ LET o == GetKeys(args, resources)
       IN /\ resources' = o.resources
          /\ calls' = IF o.call = None THEN calls ELSE Append(calls, o.call[1])
          /\ ret' = o.ret
          /\ err' = o.raised
          /\ pc' = IF o.raised = "" THEN "done" ELSE "raised"
    /\ UNCHANGED << include_fm, models, args, frame >>
    /\ UnchangedTables

\* the values an optional path argument takes: not given, relative, absolute
PathArguments(name) == { None, Some(<< name >>), Some(<< "/", "data", name >>) }

\* the resources of a model: its lookup and its files pipeline
KeysResources ==
    { [ lookup |-> l, oasis_files_pipeline |-> p ] :
        l \in { None, Some("lookup") }, p \in { ClearedPipeline, FilledPipeline } }

\* get_keys called without model or for the model 1
InitKeys ==
    /\ \E om \in { None, Some(1) },
          mefp \in { None, Some(<< "modexp.csv" >>) },
          lk \in { None, Some("lookup") },
          kfp \in PathArguments("keys.csv"),
          kefp \in { None, Some(<< "keys-errors.csv" >>) } :
          args = [ oasis_model |-> om, model_exposures_file_path |-> mefp, lookup |-> lk,
                   keys_file_path |-> kfp, keys_errors_file_path |-> kefp ]
    /\ \E r \in KeysResources : resources = (1 :> r)
    /\ models = << >>
    /\ calls = << >>
    /\ frame = << >>
    /\ include_fm = FALSE
    /\ pc = "get_keys"
    /\ err = ""
    /\ ret = None
    /\ NoTables

NextKeys == GetKeysCall

SpecKeys == InitKeys /\ [][NextKeys]_vars

\* C21: get_keys called without model, with the model exposures file path, the
\* lookup, the keys file path and the keys errors file path all given, calls the
\* keys lookup with these four values and returns the keys file path; it does
\* not raise.
GetKeysWithoutModelReturns ==
    ( /\ pc # "get_keys"
      /\ args.oasis_model = None
      /\ args.model_exposures_file_path # None /\ args.lookup # None
      /\ args.keys_file_path # None /\ args.keys_errors_file_path # None )
    => /\ pc = "done"
       /\ calls =
            << [ op |-> "save_keys",
                 keys_file_path |-> Some(Abspath(args.keys_file_path[1])),
                 keys_errors_file_path |-> Some(Abspath(args.keys_errors_file_path[1])),
                 lookup |-> args.lookup,
                 model_exposures_file_path |->
                     Some(Abspath(args.model_exposures_file_path[1])) ] >>
       /\ ret # None /\ ret[1][1] = Some(Abspath(args.keys_file_path[1]))

(***************************************************************************)
(* _process_default_kwargs and the two transformations                     *)
(***************************************************************************)
\* kwargs.get(k)
Get(kw, k) == IF k \in DOMAIN kw THEN kw[k] ELSE None

\* the truth value of a profile: None and the empty profile are false
ProfileGiven(v) == v # None /\ v # Some({})

\* the defaults taken from the resources r of a model (474-498); line 496 sets
\* fm_policytc_file_path a second time, so fm_programme_file_path gets no default
ModelDefaults(r) ==
    [ source_exposures_file_path |-> r.source_exposures_file_path,
      source_account_file_path |-> r.source_account_file_path,
      source_exposures_validation_file_path |-> r.source_exposures_validation_file_path,
      source_to_canonical_exposures_transformation_file_path |->
          r.source_to_canonical_exposures_transformation_file_path,
      canonical_exposures_profile |-> r.canonical_exposures_profile,
      canonical_account_profile |-> r.canonical_account_profile,
      canonical_account_file_path |-> r.oasis_files_pipeline.canonical_account_file_path,
      canonical_exposures_file_path |-> r.oasis_files_pipeline.canonical_exposures_file_path,
      canonical_exposures_validation_file_path |-> r.canonical_exposures_validation_file_path,
      canonical_to_model_exposures_transformation_file_path |->
          r.canonical_to_model_exposures_transformation_file_path,
      model_exposures_file_path |-> r.oasis_files_pipeline.model_exposures_file_path,
      keys_file_path |-> r.oasis_files_pipeline.keys_file_path,
      keys_errors_file_path |-> r.oasis_files_pipeline.keys_errors_file_path,
      items_file_path |-> r.oasis_files_pipeline.items_file_path,
      coverages_file_path |-> r.oasis_files_pipeline.coverages_file_path,
      gulsummaryxref_file_path |-> r.oasis_files_pipeline.gulsummaryxref_file_path,
      fm_policytc_file_path |-> r.oasis_files_pipeline.fm_policytc_file_path,
      fm_profile_file_path |-> r.oasis_files_pipeline.fm_profile_file_path,
      fm_xref_file_path |-> r.oasis_files_pipeline.fm_xref_file_path,
      fmsummaryxref_file_path |-> r.oasis_files_pipeline.fmsummaryxref_file_path ]

\* _process_default_kwargs (472-514) for the model om (None when not given):
\* the keyword arguments completed and the resources as the call leaves them.
\* The resources hold no profile JSON, so a profile that is not given is loaded
\* as the empty profile (366, 394) and stored in the model's resources (374, 402).
ProcessDefaultKwargs(om, kw, res) ==
    LET kw1 == IF om # None THEN kw @@ ModelDefaults(res[om[1]]) ELSE kw
        load_cep == ~ProfileGiven(Get(kw1, "canonical_exposures_profile"))
        kw2 == IF load_cep THEN ("canonical_exposures_profile" :> Some({})) @@ kw1 ELSE kw1
        load_cap == /\ "include_fm" \in DOMAIN kw2 /\ kw2.include_fm
                    /\ ~ProfileGiven(Get(kw2, "canonical_account_profile"))
        kw3 == IF load_cap THEN ("canonical_account_profile" :> Some({})) @@ kw2 ELSE kw2
        res1 == IF load_cep /\ om # None
                THEN [ res EXCEPT ![om[1]].canonical_exposures_profile = Some({}) ]
                ELSE res
        res2 == IF load_cap /\ om # None
                THEN [ res1 EXCEPT ![om[1]].canonical_account_profile = Some({}) ]
                ELSE res1
    IN [ kwargs |-> kw3, resources |-> res2 ]

\* os.path.abspath(kwargs[name]) for the names in turn: the exception of the
\* first name that is no key of kwargs (KeyError) or whose value is None
\* (AttributeError of os.path.abspath), "" when every path is there
PathsError(kw, names) ==
    LET bad == { j \in 1..Len(names) : Get(kw, names[j]) = None }
        first == CHOOSE j \in bad : \A k \in bad : j <= k
    IN IF bad = {} THEN ""
       ELSE IF names[first] \in DOMAIN kw THEN "AttributeError" ELSE "KeyError"

\* a run of the Translator: the output file is written from the input file
Translate(names, kw, append_row_nums) ==
    [ op |-> "translate",
      input |-> Abspath(kw[names[1]][1]),
      validation |-> Abspath(kw[names[2]][1]),
      transformation |-> Abspath(kw[names[3]][1]),
      output |-> Abspath(kw[names[4]][1]),
      append_row_nums |-> append_row_nums ]

\* the keys of kwargs read by transform_source_to_canonical (292-295)
SourceToCanonicalNames(source_type) ==
    IF source_type = "account"
    THEN << "source_account_file_path", "source_account_validation_file_path",
            "source_to_canonical_account_transformation_file_path",
            "canonical_account_file_path" >>
    ELSE << "source_exposures_file_path", "source_exposures_validation_file_path",
            "source_to_canonical_exposures_transformation_file_path",
            "canonical_exposures_file_path" >>

\* the keys of kwargs read by transform_canonical_to_model (337-340)
CanonicalToModelNames ==
    << "canonical_exposures_file_path", "canonical_exposures_validation_file_path",
       "canonical_to_model_exposures_transformation_file_path",
       "model_exposures_file_path" >>

\* a transformation on the keys names of kwargs, its output path stored in the
\* field of the model's files pipeline
Transform(om, names, field, append_row_nums, kw, res) ==
    LET d == ProcessDefaultKwargs(om, kw, res)
        raised == PathsError(d.kwargs, names)
        call == Translate(names, d.kwargs, append_row_nums)
    IN IF raised # ""
       THEN [ raised |-> raised, call |-> None, ret |-> None, resources |-> d.resources ]
       ELSE [ raised |-> "", call |-> Some(call), ret |-> Some(call.output),
              resources |->
                  IF om = None THEN d.resources
                  ELSE [ d.resources EXCEPT
                           ![om[1]].oasis_files_pipeline[field] = Some(call.output) ] ]

\* transform_source_to_canonical (248-306)
TransformSourceToCanonical(om, source_type, kw, res) ==
    Transform(om, SourceToCanonicalNames(source_type),
              IF source_type = "account" THEN "canonical_account_file_path"
                                         ELSE "canonical_exposures_file_path",
              TRUE, kw, res)

\* transform_canonical_to_model (308-348)
TransformCanonicalToModel(om, kw, res) ==
    Transform(om, CanonicalToModelNames, "model_exposures_file_path", FALSE, kw, res)

(***************************************************************************)
(* start_oasis_files_pipeline                                              *)
(***************************************************************************)
\* the files and directories of the filesystem
ExistingPaths ==
    { << "/", "out" >>, << "/", "in", "srcexp.csv" >>, << "/", "in", "srcacc.csv" >> }

\* os.path.exists
Exists(p) == p \in ExistingPaths

\* the timestamp of the run (921)
Utcnow == "t"

NoOutputDirectory == "OasisException: No output directory provided."
OutputDirectoryMissing == "OasisException: Output directory does not exist on the filesystem."
NoSourceExposures ==
    "OasisException: No source exposures file path provided in arguments or model resources"
SourceExposuresMissing ==
    "OasisException: Source exposures file path does not exist on the filesysem."
NoSourceAccount ==
    "OasisException: FM option indicated but no source account file path provided in arguments or model resources"
SourceAccountMissing ==
    "OasisException: Source account file path does not exist on the filesysem."

\* fault variant of CheckPath: a path that is given is not looked up on the
\* filesystem
CheckPathTrustingGiven(p, none_message, missing_message) ==
    IF p = None THEN none_message ELSE ""

\* `if not p: raise ... elif not os.path.exists(p): raise ...` (899-902,
\* 907-910, 916-919): the exception raised, "" when none
CheckPath(p, none_message, missing_message) ==
    IF p = None THEN none_message
    ELSE IF ~Exists(p[1]) THEN missing_message
    ELSE ""

\* the local name taken from the model's resources when it is not given
\* (896-897, 905-906, 914-915)
FromResources(name) ==
    IF args.oasis_model # None /\ frame[name] = None
    THEN resources[args.oasis_model[1]][name]
    ELSE frame[name]

UnchangedCall == UNCHANGED << include_fm, models, args >>

\* one of the three checks of the pipeline
CheckStep(at, name, none_message, missing_message, next) ==
    /\ pc = at
    /\ LET p == FromResources(name)
           e == CheckPath(p, none_message, missing_message)
       IN /\ frame' = [ frame EXCEPT ![name] = p ]
          /\ err' = e
          /\ pc' = IF e = "" THEN next ELSE "raised"
    /\ UNCHANGED << ret, resources, calls >>
    /\ UnchangedCall /\ UnchangedTables

\* the output directory (896-902)
CheckOutputDirectory ==
    CheckStep("check_oasis_files_path", "oasis_files_path",
              NoOutputDirectory, OutputDirectoryMissing, "check_source_exposures")

\* the source exposures file (904-910)
CheckSourceExposures ==
    CheckStep("check_source_exposures", "source_exposures_file_path",
              NoSourceExposures, SourceExposuresMissing, "check_source_account")

\* the source account file, with include_fm only (912-919)
CheckSourceAccount ==
    \/ /\ include_fm
       /\ CheckStep("check_source_account", "source_account_file_path",
                    NoSourceAccount, SourceAccountMissing, "process_default_kwargs")
    \/ /\ ~include_fm
       /\ pc = "check_source_account"
       /\ pc' = "process_default_kwargs"
       /\ UNCHANGED << err, ret, resources, calls, frame >>
       /\ UnchangedCall /\ UnchangedTables

\* the keyword arguments of the call at 922-940
PipelineKwargs ==
    LET dir == frame.oasis_files_path[1]
        Stamped(prefix) == Some(Join(dir, prefix \o "-" \o Utcnow \o ".csv"))
    IN [ include_fm |-> include_fm,
         source_exposures_file_path |-> frame.source_exposures_file_path,
         source_account_file_path |-> frame.source_account_file_path,
         canonical_exposures_file_path |-> Stamped("canexp"),
         canonical_account_file_path |-> Stamped("canacc"),
         model_exposures_file_path |-> Stamped("modexp"),
         keys_file_path |-> Stamped("oasiskeys"),
         keys_errors_file_path |-> Stamped("oasiskeys-errors"),
         items_file_path |-> Some(Join(dir, "items.csv")),
         coverages_file_path |-> Some(Join(dir, "coverages.csv")),
         gulsummaryxref_file_path |-> Some(Join(dir, "gulsummaryxref.csv")),
         fm_policytc_file_path |-> Some(Join(dir, "fm_policytc.csv")),
         fm_profile_file_path |-> Some(Join(dir, "fm_profile.csv")),
         fm_programme_file_path |-> Some(Join(dir, "fm_programme.csv")),
         fm_xref_file_path |-> Some(Join(dir, "fm_xref.csv")),
         fmsummaryxref_file_path |-> Some(Join(dir, "fmsummaryxref.csv")) ]

\* kwargs = self._process_default_kwargs(...) (921-940)
PipelineDefaultKwargs ==
    /\ pc = "process_default_kwargs"
    /\ LET d == ProcessDefaultKwargs(args.oasis_model, PipelineKwargs, resources)
       IN /\ frame' = [ frame EXCEPT !.kwargs = d.kwargs ]
          /\ resources' = d.resources
    /\ pc' = "copy_sources"
    /\ UNCHANGED << err, ret, calls >>
    /\ UnchangedCall /\ UnchangedTables

\* shutil.copy2(source, directory)
Copy2(source, directory) == [ op |-> "copy2", source |-> source, directory |-> directory ]

\* the copies of the source files (942-951); both test the source exposures file
PipelineCopySources ==
    /\ pc = "copy_sources"
    /\ LET sefp == Get(frame.kwargs, "source_exposures_file_path")
           safp == Get(frame.kwargs, "source_account_file_path")
           copy_exp == IF ~Exists(sefp[1])
                       THEN << Copy2(sefp, frame.oasis_files_path) >> ELSE << >>
           copy_acc == IF include_fm /\ ~Exists(sefp[1])
                       THEN << Copy2(safp, frame.oasis_files_path) >> ELSE << >>
       IN /\ calls' = calls \o copy_exp \o copy_acc
          /\ frame' = [ frame EXCEPT !.source_exposures_file_path = sefp,
                                     !.source_account_file_path =
                                         IF include_fm THEN safp ELSE @ ]
    /\ pc' = "source_to_canonical"
    /\ UNCHANGED << err, ret, resources >>
    /\ UnchangedCall /\ UnchangedTables

\* the outcome o of a call made by the pipeline, which goes on at next when the
\* call returns; the value returned is dropped
PipelineCall(o, next) ==
    /\ resources' = o.resources
    /\ calls' = IF o.call = None THEN calls ELSE Append(calls, o.call[1])
    /\ err' = o.raised
    /\ pc' = IF o.raised = "" THEN next ELSE "raised"
    /\ UNCHANGED << ret, frame >>
    /\ UnchangedCall /\ UnchangedTables

\* self.transform_source_to_canonical(**kwargs) (953-954)
PipelineSourceToCanonical ==
    /\ pc = "source_to_canonical"
    /\ PipelineCall(TransformSourceToCanonical(None, "exposures", frame.kwargs, resources),
                    "account_to_canonical")

\* self.transform_source_to_canonical(source_type='account', **kwargs), with
\* include_fm only (956-958)
PipelineAccountToCanonical ==
    /\ pc = "account_to_canonical"
    /\ IF include_fm
       THEN PipelineCall(TransformSourceToCanonical(None, "account", frame.kwargs, resources),
                         "canonical_to_model")
       ELSE /\ pc' = "canonical_to_model"
            /\ UNCHANGED << err, ret, resources, calls, frame >>
            /\ UnchangedCall /\ UnchangedTables

\* self.transform_canonical_to_model(**kwargs) (960-961)
PipelineCanonicalToModel ==
    /\ pc = "canonical_to_model"
    /\ PipelineCall(TransformCanonicalToModel(None, frame.kwargs, resources), "get_keys")

\* self.get_keys(oasis_model=oasis_model, **kwargs) (963-964)
PipelineGetKeys ==
    /\ pc = "get_keys"
    /\ PipelineCall(GetKeys([ oasis_model |-> args.oasis_model,
                              model_exposures_file_path |->
                                  Get(frame.kwargs, "model_exposures_file_path"),
                              lookup |-> Get(frame.kwargs, "lookup"),
                              keys_file_path |-> Get(frame.kwargs, "keys_file_path"),
                              keys_errors_file_path |->
                                  Get(frame.kwargs, "keys_errors_file_path") ],
                            resources),
                    "generate_oasis_files")

\* a call f(name=..., **kw) binds a name twice when kw holds it as a key:
\* TypeError, got multiple values for keyword argument
KeywordsBoundTwice(names, kw) == names \cap DOMAIN kw # {}

\* return self.generate_oasis_files(oasis_model=oasis_model,
\* include_fm=include_fm, **kwargs) (966-967)
PipelineGenerateOasisFiles ==
    /\ pc = "generate_oasis_files"
    /\ IF KeywordsBoundTwice({ "oasis_model", "include_fm" }, frame.kwargs)
       THEN /\ pc' = "raised"
            /\ err' = "TypeError"
            /\ calls' = calls
       ELSE /\ pc' = "generate_gul_files"
            /\ err' = err
            /\ calls' = Append(calls, [ op |-> "generate_oasis_files" ])
    /\ UNCHANGED << ret, resources, frame >>
    /\ UnchangedCall /\ UnchangedTables

\* an optional path argument: not given, a path that exists, one that does not
GivenOrNot(path) == { None, Some(path), Some(<< "/", "nowhere" >> \o path) }

\* the resources of a model: the paths of the run, the validation and
\* transformation files (all configured or none), the lookup, the exposures
\* profile and a cleared files pipeline
PipelineResources ==
    { [ oasis_files_path |-> dir,
        source_exposures_file_path |-> sefp,
        source_account_file_path |-> safp,
        source_exposures_validation_file_path |-> conf["srcexp.xsd"],
        source_to_canonical_exposures_transformation_file_path |-> conf["srcexp.xslt"],
        canonical_exposures_validation_file_path |-> conf["canexp.xsd"],
        canonical_to_model_exposures_transformation_file_path |-> conf["canexp.xslt"],
        canonical_exposures_profile |-> cp,
        canonical_account_profile |-> None,
        lookup |-> Some("lookup"),
        oasis_files_pipeline |-> ClearedPipeline ] :
        dir \in { None, Some(<< "/", "out" >>) },
        sefp \in { None, Some(<< "/", "in", "srcexp.csv" >>) },
        safp \in { None, Some(<< "/", "in", "srcacc.csv" >>) },
        conf \in { [ n \in { "srcexp.xsd", "srcexp.xslt", "canexp.xsd", "canexp.xslt" }
                       |-> Some(<< "/", "conf", n >>) ],
                   [ n \in { "srcexp.xsd", "srcexp.xslt", "canexp.xsd", "canexp.xslt" }
                       |-> None ] },
        cp \in { None, Some({ "WSCV1VAL" }) } }

\* start_oasis_files_pipeline called without model or for the model 1
InitPipeline ==
    /\ \E om \in { None, Some(1) },
          dir \in GivenOrNot(<< "/", "out" >>),
          sefp \in GivenOrNot(<< "/", "in", "srcexp.csv" >>),
          safp \in GivenOrNot(<< "/", "in", "srcacc.csv" >>) :
          /\ args = [ oasis_model |-> om, oasis_files_path |-> dir,
                      source_exposures_file_path |-> sefp,
                      source_account_file_path |-> safp ]
          /\ frame = [ oasis_files_path |-> dir, source_exposures_file_path |-> sefp,
                       source_account_file_path |-> safp, kwargs |-> << >> ]
    /\ include_fm \in BOOLEAN
    /\ \E r \in PipelineResources : resources = (1 :> r)
    /\ models = << >>
    /\ calls = << >>
    /\ pc = "check_oasis_files_path"
    /\ err = ""
    /\ ret = None
    /\ NoTables

NextPipeline ==
    \/ CheckOutputDirectory
    \/ CheckSourceExposures
    \/ CheckSourceAccount
    \/ PipelineDefaultKwargs
    \/ PipelineCopySources
    \/ PipelineSourceToCanonical
    \/ PipelineAccountToCanonical
    \/ PipelineCanonicalToModel
    \/ PipelineGetKeys
    \/ PipelineGenerateOasisFiles

SpecPipeline == InitPipeline /\ [][NextPipeline]_vars

(***************************************************************************)
(* The pipeline as a whole.                                                *)
(***************************************************************************)
\* the value a path of the call has: the argument, else the model's resource
PathOfCall(name) ==
    IF args.oasis_model # None
    THEN Or(args[name], resources[args.oasis_model[1]][name])
    ELSE args[name]

\* the operations performed so far, in order
Operations == [ k \in 1..Len(calls) |-> calls[k].op ]

\* C22: for a model whose output directory and source exposures file exist
\* (and whose validation and transformation files are configured), without
\* FM, the pipeline runs source-to-canonical, canonical-to-model, the keys
\* generation and then the GUL file generation, in this order, and ends
\* without exception.
PipelineRunsToGulFiles ==
    ( /\ pc \in { "raised", "generate_gul_files" }
      /\ args.oasis_model # None
      /\ ~include_fm
      /\ PathOfCall("oasis_files_path") # None
      /\ Exists(PathOfCall("oasis_files_path")[1])
      /\ PathOfCall("source_exposures_file_path") # None
      /\ Exists(PathOfCall("source_exposures_file_path")[1])
      /\ resources[1].source_exposures_validation_file_path # None )
    => /\ pc = "generate_gul_files"
       /\ err = ""
       /\ Operations = << "translate", "translate", "save_keys", "generate_oasis_files" >>
       /\ calls[1].input = PathOfCall("source_exposures_file_path")[1]
       /\ calls[2].input = calls[1].output
       /\ calls[3].model_exposures_file_path = Some(calls[2].output)

\* the exception the three checks call for, in their order: the output
\* directory, the source exposures file and, with FM, the source account file
Refusal ==
    LET dir == PathOfCall("oasis_files_path")
        sefp == PathOfCall("source_exposures_file_path")
        safp == PathOfCall("source_account_file_path")
    IN IF dir = None THEN NoOutputDirectory
       ELSE IF ~Exists(dir[1]) THEN OutputDirectoryMissing
       ELSE IF sefp = None THEN NoSourceExposures
       ELSE IF ~Exists(sefp[1]) THEN SourceExposuresMissing
       ELSE IF include_fm /\ safp = None THEN NoSourceAccount
       ELSE IF include_fm /\ ~Exists(safp[1]) THEN SourceAccountMissing
       ELSE ""

\* C29: when the output directory, the source exposures file or, with FM, the
\* source account file is not given or does not exist, the pipeline never gets
\* past its checks: it raises the OasisException of the first of these checks
\* that fails, and no transformation, keys lookup, copy or write has been made.
ChecksPrecedeWork ==
    Refusal # ""
    => /\ pc \in { "check_oasis_files_path", "check_source_exposures",
                    "check_source_account", "raised" }
       /\ pc = "raised" => err = Refusal
       /\ calls = << >>
       /\ frame.kwargs = << >>

\* the account file is found missing after the two other checks have passed
RefusedForSourceAccount ==
    /\ pc = "raised"
    /\ err = SourceAccountMissing
    /\ args.oasis_files_path = None
    /\ frame.oasis_files_path = Some(<< "/", "out" >>)
    /\ calls = << >>

(***************************************************************************)
(* add_model, delete_model                                                 *)
(***************************************************************************)
\* the longest sequence of calls followed
MaxCalls == 4

\* the model objects; the objects 1 and 2 carry the same key
ModelObjects == { 1, 2, 3 }

\* oasis_model.key
Key(m) == IF m = 3 THEN "b" ELSE "a"

\* add_model (181): the mapping after the call
AddModelTo(mods, m) == (Key(m) :> m) @@ mods

\* fault variant of DeleteModelFrom: the key is deleted, the files pipeline of
\* the model is left as it is
DeleteModelKeepingPipeline(mods, res, m) ==
    IF Key(m) \in DOMAIN mods
    THEN [ models |-> [ k \in DOMAIN mods \ { Key(m) } |-> mods[k] ],
           resources |-> res ]
    ELSE [ models |-> mods, resources |-> res ]

\* delete_model (196-199): the mapping and the resources after the call
DeleteModelFrom(mods, res, m) ==
    IF Key(m) \in DOMAIN mods
    THEN [ models |-> [ k \in DOMAIN mods \ { Key(m) } |-> mods[k] ],
           resources |-> [ res EXCEPT ![m].oasis_files_pipeline = ClearedPipeline ] ]
    ELSE [ models |-> mods, resources |-> res ]

\* a call of the manager goes into the log; nothing else of the state moves
ManagerCall(op, m) ==
    /\ pc = "manager"
    /\ Len(calls) < MaxCalls
    /\ calls' = Append(calls, [ op |-> op, model |-> m ])
    /\ UNCHANGED << pc, err, include_fm, args, frame >>
    /\ UnchangedTables

\* add_model(oasis_model) (177-183)
AddModel ==
    \E m \in ModelObjects :
        /\ ManagerCall("add_model", m)
        /\ models' = AddModelTo(models, m)
        /\ ret' = Some(m)
        /\ UNCHANGED resources

\* delete_model(oasis_model) (192-199)
DeleteModel ==
    \E m \in ModelObjects :
        /\ ManagerCall("delete_model", m)
        /\ LET o == DeleteModelFrom(models, resources, m)
           IN /\ models' = o.models
              /\ resources' = o.resources
        /\ ret' = None

\* a manager constructed without models (165-175); each model object has a
\* files pipeline, cleared or holding the paths of a run
InitManager ==
    /\ models = << >>
    /\ resources \in [ ModelObjects ->
                          { [ oasis_files_pipeline |-> p ] :
                              p \in { ClearedPipeline, FilledPipeline } } ]
    /\ calls = << >>
    /\ args = << >>
    /\ frame = << >>
    /\ include_fm = FALSE
    /\ pc = "manager"
    /\ err = ""
    /\ ret = None
    /\ NoTables

NextManager == AddModel \/ DeleteModel

SpecManager == InitManager /\ [][NextManager]_vars

\* the calls of the log that concern the key k: a model, as the manager knows
\* it, is its key
CallsOfKey(k) == { j \in 1..Len(calls) : Key(calls[j].model) = k }

\* the last call that concerns the key k
LastCallOfKey(k) == calls[CHOOSE j \in CallsOfKey(k) : \A l \in CallsOfKey(k) : l <= j]

\* the keys added and not deleted since
KeysAddedAndNotDeleted ==
    { k \in { Key(m) : m \in ModelObjects } :
        CallsOfKey(k) # {} /\ LastCallOfKey(k).op = "add_model" }

\* the call just made
LastCall == calls'[Len(calls')]

\* a step that is a call of delete_model leaves the mapping and the files
\* pipeline of its model alone when the key of the model is not registered,
\* and clears the files pipeline of its model when the key is registered
DeleteModelStep ==
    ( calls' # calls /\ LastCall.op = "delete_model" )
    => IF Key(LastCall.model) \in DOMAIN models
       THEN resources'[LastCall.model].oasis_files_pipeline = ClearedPipeline
       ELSE /\ models' = models
            /\ resources'[LastCall.model] = resources[LastCall.model]

\* C23: after any sequence of add_model and delete_model calls the mapping
\* holds exactly the keys added and not deleted since, each with the model
\* object added last under the key; delete_model of a model whose key is not
\* registered changes neither the mapping nor the files pipeline of the model,
\* and delete_model of a model whose key is registered clears the files
\* pipeline of the model.
ModelsAsAddedAndDeleted ==
    /\ [](/\ DOMAIN models = KeysAddedAndNotDeleted
          /\ \A k \in DOMAIN models : models[k] = LastCallOfKey(k).model)
    /\ [][DeleteModelStep]_vars

\* the object 2 has replaced the object 1 under their key, and the model of the
\* other key has been added and deleted, which cleared its files pipeline
ReplacedAndDeleted ==
    /\ calls = << [ op |-> "add_model", model |-> 1 ], [ op |-> "add_model", model |-> 3 ],
                  [ op |-> "add_model", model |-> 2 ], [ op |-> "delete_model", model |-> 3 ] >>
    /\ models = ("a" :> 2)
    /\ resources[3].oasis_files_pipeline = ClearedPipeline
    /\ resources[1].oasis_files_pipeline = FilledPipeline

(***************************************************************************)
(* The Term Resolver and the calc rules, by level.                         *)
(***************************************************************************)
\* the value the row is to hold for the term type, read from the column that
\* the entry of the term group g names on the canonical row of the row
TermOfGroup(row, g, type) ==
    LET entries == DeclaredEntries(row.fm_level, g, type)
        column == Lower((CHOOSE e \in entries : TRUE).ProfileElementName)
    IN IF entries # {} /\ column \in DOMAIN CanonicalRowOfTerm(row)
       THEN Some(Stored(CanonicalRowOfTerm(row)[column], row.tiv))
       ELSE Some(0)

\* C24: a row of a non-coverage level holds the limit and the deductible of the
\* single term group declared at its level, whatever the id of the group, and
\* the pass of such a row does not raise when the id is not 1.
SingleGroupReadWhateverId ==
    /\ \A k \in Processed :
          LET row == fm_df[k] IN
          row.fm_level # "coverage" =>
              \A g \in TermGroupsOf(row) :
                  /\ row.limit = TermOfGroup(row, g, "limit")
                  /\ row.deductible = TermOfGroup(row, g, "deductible")
    /\ RaisedInPass =>
          \/ fm_df[i + 1].fm_level = "coverage"
          \/ TermGroupsOf(fm_df[i + 1]) = { 1 }

\* the first term group, in the order of the group ids, whose TIV column holds
\* the TIV of the row
FirstMatchingGroup(row) ==
    CHOOSE g \in TermGroupsOf(row) : \A h \in TermGroupsOf(row) : g <= h

\* the deductible type the term group g declares: 'B' when its deductible
\* entry gives none
DeductibleTypeOfGroup(row, g) ==
    LET e == CHOOSE d \in DeclaredEntries(row.fm_level, g, "deductible") : TRUE
    IN IF "DeductibleType" \in DOMAIN e THEN e.DeductibleType ELSE "B"

\* C25: a row of the coverage level holds the limit, the deductible and the
\* deductible type of the first term group, in the order of the group ids,
\* whose TIV column holds the TIV of the row, later groups that match being
\* passed over; the type is 'B' when the deductible entry of the group gives
\* none.
FirstGroupInOrderApplied ==
    \A k \in Processed :
        LET row == fm_df[k] IN
        (row.fm_level = "coverage" /\ TermGroupsOf(row) # {}) =>
            LET g == FirstMatchingGroup(row) IN
            /\ row.limit = TermOfGroup(row, g, "limit")
            /\ row.deductible = TermOfGroup(row, g, "deductible")
            /\ row.deductibletype = Some(DeductibleTypeOfGroup(row, g))

\* the first line of the decision table that the limit, the share and the
\* deductible type of the row match
RuleOfTable(row) ==
    LET plain == row.deductibletype = Some("B")
        limit_is(sign) == row.limit # None /\ sign[row.limit[1]]
        share_is(sign) == row.share # None /\ sign[row.share[1]]
        zero == [ x \in Int |-> x = 0 ]
        positive == [ x \in Int |-> x > 0 ]
    IN IF limit_is(zero) /\ share_is(zero) /\ plain THEN 12
       ELSE IF limit_is(zero) /\ share_is(positive) /\ plain THEN 15
       ELSE IF limit_is(positive) /\ share_is(zero) /\ plain THEN 1
       ELSE IF row.deductibletype = Some("MI") THEN 11
       ELSE IF row.deductibletype = Some("MA") THEN 10
       ELSE 2

\* C26: every row the loop has passed holds one calc rule, the first line of
\* the decision table that the row matches, and the selection of the calc rule
\* raises for no row, a coverage row that matches no term group included.
CalcRuleOfEveryRow ==
    /\ \A k \in Processed : fm_df[k].calcrule = Some(RuleOfTable(fm_df[k]))
    /\ RaisedInPass => err # "UnboundLocalError"

\* the TIV entry the item of the row took its TIV from: that of the coverage
\* type of the keys row the item was made of
TivEntryOfItem(row) == TivEntryOf(keys_df[SourceRow(row.itemid)].coveragetype)

\* C27: a row of the coverage level holds the limit and the deductible of the
\* term group of the TIV entry its item took its TIV from, also when the two
\* TIV columns of the canonical row hold the same value.
GroupOfItemsTivColumnApplied ==
    \A k \in Processed :
        LET row == fm_df[k] IN
        (row.fm_level = "coverage" /\ "FMTermGroupID" \in DOMAIN TivEntryOfItem(row)) =>
            /\ row.limit = TermOfGroup(row, TivEntryOfItem(row).FMTermGroupID, "limit")
            /\ row.deductible = TermOfGroup(row, TivEntryOfItem(row).FMTermGroupID, "deductible")

\* C28: no row holds the calc rule 15: the share being 0 on every row, the calc
\* rule of a row is one of 12, 1, 11, 10 and 2, and a row of deductible type 'B'
\* holds 2 only when its limit is negative.
CalcRuleNeverFifteen ==
    \A k \in 1..Len(fm_df) :
        LET row == fm_df[k] IN
        row.calcrule # None =>
            /\ row.calcrule[1] # 15
            /\ row.calcrule[1] \in { 12, 1, 11, 10, 2 }
            /\ (row.deductibletype = Some("B") /\ row.calcrule = Some(2)) =>
                   (row.limit # None /\ row.limit[1] < 0)

\* the finished table holds a row of type 'B' whose negative limit gave it the
\* calc rule 2, and a row of type 'B' whose limit, a fraction of the TIV, gave
\* it the calc rule 1
NegativeLimitGivenRuleTwo ==
    /\ pc = "done"
    /\ \E k1, k2 \in 1..Len(fm_df) :
          /\ fm_df[k1].deductibletype = Some("B") /\ fm_df[k1].share = Some(0)
          /\ fm_df[k1].fm_level = "coverage" /\ canexp_df[1].wscv1limit = Amount(0 - 1500)
          /\ fm_df[k1].limit # None /\ fm_df[k1].limit[1] < 0
          /\ fm_df[k1].calcrule = Some(2)
          /\ fm_df[k2].deductibletype = Some("B") /\ fm_df[k2].share = Some(0)
          /\ fm_df[k2].fm_level = "policy" /\ canexp_df[1].blanlimamt = Half
          /\ fm_df[k2].limit = Some(Amount(500)) /\ fm_df[k2].calcrule = Some(1)

====
